---- MODULE Spec2Model ----
(***************************************************************************)
(* Event-driven pixel canvas: the pixel worker (rate limiter and pixel     *)
(* store mutator), the session worker (canvas life cycle and reset), the   *)
(* snapshot worker (sparse tiling) and the Pub/Sub delivery of their       *)
(* events, over one Firestore database.                                    *)
(*                                                                         *)
(* A Firestore document is a function from field names to values; a        *)
(* collection is a function from document ids to documents, and a document *)
(* that does not exist is an id outside the collection's domain.  The      *)
(* field "ver" stands for the document's update time, which is what a      *)
(* transaction's commit compares with the time of its read.                *)
(* Every worker invocation is a process whose steps are cut at its I/O     *)
(* boundaries (the awaits / blocking calls of the source).                 *)
(***************************************************************************)
EXTENDS Integers, Sequences, FiniteSets, TLC

(***************************************************************************)
(* Program constants.                                                      *)
(***************************************************************************)
rateLimitWindow == 60
rateLimitMax == 20
maxCoordinate == 100000
\* RunTransaction gives up after this many aborted attempts of one transaction
\* (the client library's retry budget)
MaxAttempts == 2
batchSize == 500
DefaultSessionSize == 100
tileSize == 2048
thumbnailMaxSize == 800
defaultCanvas == 1000
maxDeliveryAttempts == 5

VARIABLES
    now,            \* the clock, in seconds
    faultBudget,    \* store failures the environment may still inject
    session,        \* collection sessions, document "current"
    archives,       \* collection sessions, documents archive_<ms>
    pixels,         \* collection pixels, id <<x, y>>
    users,          \* collection users, id userId
    rateLimits,     \* collection rate_limits, id <<userId, minute>>
    published,      \* messages published on the public-pixel topic
    inputs,         \* the pixel events that may be published to pixel-events
    pc, ev, loc, result,   \* the pixel worker's invocations
    hist,           \* history of commits (for stating properties only)
    interactions,   \* the /session interactions the dispatcher received
    sinputs,        \* the session commands that may be published
    spc, sev, sloc, sres,  \* the session worker's invocations
    replies,        \* follow-up messages sent for each session command
    shist,          \* history of the session commands (properties only)
    snap,           \* the snapshot worker's invocation
    tiles,          \* the tile jobs of the snapshot run
    bucket,         \* the objects of the snapshots bucket
    deadLetter      \* the events on the dead-letter topics

storeVars == <<session, archives, pixels, users, rateLimits, published>>
pixVars == <<pc, ev, loc, result>>
envVars == <<now, faultBudget, inputs>>
snapVars == <<snap, tiles, bucket>>
sessVars == <<interactions, sinputs, spc, sev, sloc, sres, replies, shist>>
vars == <<now, faultBudget, session, archives, pixels, users, rateLimits,
          published, inputs, pc, ev, loc, result, hist,
          interactions, sinputs, spc, sev, sloc, sres, replies, shist, snap,
          tiles, bucket, deadLetter>>

(***************************************************************************)
(* Documents.                                                              *)
(***************************************************************************)
Empty == [k \in {} |-> 0]

\* f with the fields of g written over it (DocumentReference.update)
Merge(f, g) == g @@ f

\* toInt(data[name]): a missing field reads as 0
toInt(data, name) == IF name \in DOMAIN data THEN data[name] ELSE 0

\* the update time of a document of a collection; 0 when it does not exist
VerOf(coll, id) == IF id \in DOMAIN coll THEN coll[id].ver ELSE 0

\* the collection with document id set to doc (created or replaced)
Put(coll, id, doc) == (id :> doc) @@ coll

(***************************************************************************)
(* Colors are strings, modelled as sequences of characters.                *)
(***************************************************************************)
HexDigits == {"0", "1", "2", "3", "4", "5", "6", "7", "8", "9",
              "A", "B", "C", "D", "E", "F", "a", "b", "c", "d", "e", "f"}

\* hexColorRegex = ^[0-9A-Fa-f]{6}$
hexColorRegex(c) == Len(c) = 6 /\ \A i \in 1..Len(c) : c[i] \in HexDigits

Abs(n) == IF n < 0 THEN 0 - n ELSE n

(***************************************************************************)
(* Pixel worker: validateBounds.  The argument is the sessions collection  *)
(* as read by Doc("current").Get; the result is the reason, without the    *)
(* numbers formatted into it, and "" when valid.                           *)
(***************************************************************************)
\* validateBounds with the magnitude test before the test of the bounds
validateBoundsMagnitudeFirst(sess, x, y) ==
    IF "current" \notin DOMAIN sess THEN "No active session"
    ELSE LET data == sess["current"]
             status == IF "status" \in DOMAIN data THEN data["status"] ELSE ""
             cw == toInt(data, "canvasWidth")
             ch == toInt(data, "canvasHeight")
         IN  IF status # "active" THEN "Session is " \o status
             ELSE IF Abs(x) > maxCoordinate \/ Abs(y) > maxCoordinate
                  THEN "Coordinates too large"
             ELSE IF cw > 0 /\ ch > 0 /\ (x < 0 \/ x >= cw \/ y < 0 \/ y >= ch)
                  THEN "Coordinates out of bounds"
             ELSE ""

validateBounds(sess, x, y) ==
    IF "current" \notin DOMAIN sess THEN "No active session"
    ELSE LET data == sess["current"]
             status == IF "status" \in DOMAIN data THEN data["status"] ELSE ""
             cw == toInt(data, "canvasWidth")
             ch == toInt(data, "canvasHeight")
         IN  IF status # "active" THEN "Session is " \o status
             ELSE IF cw > 0 /\ ch > 0 /\ (x < 0 \/ x >= cw \/ y < 0 \/ y >= ch)
                  THEN "Coordinates out of bounds"
             ELSE IF Abs(x) > maxCoordinate \/ Abs(y) > maxCoordinate
                  THEN "Coordinates too large"
             ELSE ""

(***************************************************************************)
(* Pixel worker: one invocation of handleCloudEvent per process.           *)
(* pc: "start" -> "rl_read" -> "rl_commit" -> "up_read" -> "up_commit"     *)
(*     -> "publish" -> "done"; a rejection goes to "done" at once.         *)
(***************************************************************************)
NoEvent == [x |-> 0, y |-> 0, color |-> <<>>, userId |-> "", username |-> "",
            source |-> ""]

\* the locals of an invocation that is not inside a transaction
NoTx == [t0 |-> 0, attempts |-> 0, write |-> "", rdver |-> 0,
         allowed |-> FALSE, count |-> 0, ts |-> 0, failOpen |-> FALSE]

minuteOf(t) == t \div rateLimitWindow

\* the document id "<userId>_<minute>" of checkRateLimit
rateLimitId(userID, t) == <<userID, minuteOf(t)>>

\* the document id "<x>_<y>" of updatePixel
pixelID(x, y) == <<x, y>>

\* checkRateLimitTx with the limit tested after the increment (c > max)
checkRateLimitTxOffByOne(err, data) ==
    IF err THEN [write |-> "set", allowed |-> TRUE, count |-> 1]
    ELSE LET c == toInt(data, "count")
         IN  IF c > rateLimitMax
             THEN [write |-> "none", allowed |-> FALSE, count |-> c]
             ELSE [write |-> "update", allowed |-> TRUE, count |-> c + 1]

\* the function checkRateLimit passes to RunTransaction: err is the error of
\* tx.Get(ref) (NotFound included), data the document read when there is none
checkRateLimitTx(err, data) ==
    IF err THEN [write |-> "set", allowed |-> TRUE, count |-> 1]
    ELSE LET c == toInt(data, "count")
         IN  IF c >= rateLimitMax
             THEN [write |-> "none", allowed |-> FALSE, count |-> c]
             ELSE [write |-> "update", allowed |-> TRUE, count |-> c + 1]

\* the function updatePixel passes to RunTransaction: which write the user
\* document gets
updatePixelTx(err, exists) == IF ~err /\ exists THEN "update" ELSE "set"

\* pixelDoc writing only the fields of the placement over the old document
pixelDocMerged(old, e, ts) ==
    Merge([x |-> e.x, y |-> e.y, color |-> e.color, userId |-> e.userId,
           username |-> e.username, source |-> e.source, updatedAt |-> ts],
          [f \in DOMAIN old \cap {"username", "source"} |-> old[f]])

\* the pixel document updatePixel sets (tx.Set: the whole document)
pixelDoc(old, e, ts) ==
    [x |-> e.x, y |-> e.y, color |-> e.color, userId |-> e.userId,
     username |-> e.username, source |-> e.source, updatedAt |-> ts]

\* userDoc that sets pixelCount instead of incrementing it
userDocSetCount(old, write, e, ts, ver) ==
    [id |-> e.userId, username |-> e.username, lastPixelAt |-> ts,
     pixelCount |-> 1, createdAt |-> ts, ver |-> ver]

\* the user document after updatePixel's write
userDoc(old, write, e, ts, ver) ==
    IF write = "update"
    THEN Merge(old, [lastPixelAt |-> ts,
                     pixelCount |-> toInt(old, "pixelCount") + 1,
                     ver |-> ver])
    ELSE [id |-> e.userId, username |-> e.username, lastPixelAt |-> ts,
          pixelCount |-> 1, createdAt |-> ts, ver |-> ver]

\* a transaction's commit is accepted when the document it read has not been
\* written since (rdver = -1: the read returned an error, nothing was read)
CommitValid(coll, id, rdver) == rdver = -1 \/ VerOf(coll, id) = rdver

\* HandleStart of a worker that counts the placement against the rate limit
\* of the user before it validates the session and the bounds
HandleStartCountsRejected(p) ==
    /\ pc[p] = "start"
    /\ \E e \in inputs :
        LET e1 == IF e.source = "" THEN [e EXCEPT !.source = "web"] ELSE e
            reason == validateBounds(session, e1.x, e1.y)
            id == rateLimitId(e1.userId, now)
        IN  /\ ev' = [ev EXCEPT ![p] = e1]
            /\ IF ~hexColorRegex(e1.color)
               THEN /\ result' = [result EXCEPT ![p] = "Invalid color format"]
                    /\ pc' = [pc EXCEPT ![p] = "done"]
                    /\ UNCHANGED <<loc, rateLimits>>
               ELSE IF reason # ""
               THEN /\ result' = [result EXCEPT ![p] = reason]
                    /\ pc' = [pc EXCEPT ![p] = "done"]
                    /\ rateLimits' =
                         Put(rateLimits, id,
                             [count |-> (IF id \in DOMAIN rateLimits
                                         THEN rateLimits[id].count ELSE 0) + 1,
                              userId |-> e1.userId, window |-> minuteOf(now),
                              expiresAt |-> now + rateLimitWindow * 2,
                              ver |-> VerOf(rateLimits, id) + 1])
                    /\ UNCHANGED loc
               ELSE /\ pc' = [pc EXCEPT ![p] = "rl_read"]
                    /\ loc' = [loc EXCEPT ![p] = [NoTx EXCEPT !.t0 = now]]
                    /\ UNCHANGED <<result, rateLimits>>
    /\ UNCHANGED <<now, inputs, faultBudget, session, archives, pixels, users,
                   published, hist, sessVars, snapVars, deadLetter>>

\* lines 312-357: parse, default source, color check, validateBounds
HandleStart(p) ==
    /\ pc[p] = "start"
    /\ \E e \in inputs :
        \E readFails \in {FALSE, faultBudget > 0} :
        LET e1 == IF e.source = "" THEN [e EXCEPT !.source = "web"] ELSE e
            reason == IF readFails THEN "No active session"
                      ELSE validateBounds(session, e1.x, e1.y)
        IN  /\ ev' = [ev EXCEPT ![p] = e1]
            /\ IF ~hexColorRegex(e1.color)
               THEN /\ result' = [result EXCEPT ![p] = "Invalid color format"]
                    /\ pc' = [pc EXCEPT ![p] = "done"]
                    /\ UNCHANGED <<loc, faultBudget>>
               ELSE /\ faultBudget' = IF readFails THEN faultBudget - 1
                                      ELSE faultBudget
                    /\ IF reason # ""
                       THEN /\ result' = [result EXCEPT ![p] = reason]
                            /\ pc' = [pc EXCEPT ![p] = "done"]
                            /\ UNCHANGED loc
                       ELSE /\ pc' = [pc EXCEPT ![p] = "rl_read"]
                            /\ loc' = [loc EXCEPT ![p] = [NoTx EXCEPT !.t0 = now]]
                            /\ UNCHANGED result
    /\ UNCHANGED <<now, inputs, storeVars, hist,
                   sessVars, snapVars, deadLetter>>

\* checkRateLimit, lines 140-169: the transaction function, run on one read
RLRead(p) ==
    /\ pc[p] = "rl_read"
    /\ LET id == rateLimitId(ev[p].userId, loc[p].t0)
       IN \E readFails \in {FALSE, faultBudget > 0} :
           LET notFound == id \notin DOMAIN rateLimits
               err == readFails \/ notFound
               r == checkRateLimitTx(err, IF err THEN Empty ELSE rateLimits[id])
           IN  /\ loc' = [loc EXCEPT ![p].write = r.write,
                                      ![p].allowed = r.allowed,
                                      ![p].count = r.count,
                                      ![p].rdver = IF readFails THEN -1
                                                   ELSE VerOf(rateLimits, id)]
               /\ faultBudget' = IF readFails THEN faultBudget - 1 ELSE faultBudget
               /\ hist' = IF readFails THEN [hist EXCEPT !.rlFault = TRUE] ELSE hist
    /\ pc' = [pc EXCEPT ![p] = "rl_commit"]
    /\ UNCHANGED <<now, inputs, storeVars, ev, result,
                   sessVars, snapVars, deadLetter>>

\* rateLimitWrite whose update adds 2 to the count
rateLimitWriteByTwo(coll, id, write, userID, t0) ==
    IF write = "set"
    THEN Put(coll, id, [count |-> 1, userId |-> userID, window |-> minuteOf(t0),
                        expiresAt |-> t0 + rateLimitWindow * 2,
                        ver |-> VerOf(coll, id) + 1])
    ELSE IF write = "update"
    THEN [coll EXCEPT ![id] = Merge(@, [count |-> toInt(@, "count") + 2,
                                        ver |-> @.ver + 1])]
    ELSE coll

\* the rate_limits collection after the writes of the transaction
rateLimitWrite(coll, id, write, userID, t0) ==
    IF write = "set"
    THEN Put(coll, id, [count |-> 1, userId |-> userID, window |-> minuteOf(t0),
                        expiresAt |-> t0 + rateLimitWindow * 2,
                        ver |-> VerOf(coll, id) + 1])
    ELSE IF write = "update"
    THEN [coll EXCEPT ![id] = Merge(@, [count |-> toInt(@, "count") + 1,
                                        ver |-> @.ver + 1])]
    ELSE coll

\* what checkRateLimit returns when RunTransaction returns an error
\* (lines 171-174): allowed, count 0
checkRateLimitOnError == [allowed |-> TRUE, count |-> 0]

\* checkRateLimit, lines 140-176, and the caller's branch, lines 360-368:
\* the commit of the transaction, its retry, and the result
RLCommit(p) ==
    /\ pc[p] = "rl_commit"
    /\ LET id == rateLimitId(ev[p].userId, loc[p].t0)
           l == loc[p]
           proceed(allowed, count, open) ==
               IF allowed
               THEN /\ pc' = [pc EXCEPT ![p] = "up_read"]
                    /\ loc' = [loc EXCEPT ![p] =
                                 [NoTx EXCEPT !.allowed = TRUE, !.count = count,
                                              !.failOpen = open, !.ts = now]]
                    /\ UNCHANGED result
               ELSE /\ pc' = [pc EXCEPT ![p] = "done"]
                    /\ loc' = [loc EXCEPT ![p] =
                                 [NoTx EXCEPT !.allowed = FALSE, !.count = count]]
                    /\ result' = [result EXCEPT ![p] = "Rate limit exceeded"]
       IN \/ \* the commit is accepted
             /\ l.write = "none" \/ CommitValid(rateLimits, id, l.rdver)
             /\ rateLimits' = rateLimitWrite(rateLimits, id, l.write,
                                             ev[p].userId, l.t0)
             /\ hist' = IF l.write = "none" THEN hist
                        ELSE [hist EXCEPT !.writes[p] = @ + 1]
             /\ proceed(l.allowed, l.count, FALSE)
             /\ UNCHANGED faultBudget
          \/ \* the commit is aborted by a concurrent write: retry
             /\ l.write # "none" /\ ~CommitValid(rateLimits, id, l.rdver)
             /\ UNCHANGED <<rateLimits, faultBudget>>
             /\ IF l.attempts + 1 < MaxAttempts
                THEN /\ pc' = [pc EXCEPT ![p] = "rl_read"]
                     /\ loc' = [loc EXCEPT ![p] =
                                  [NoTx EXCEPT !.t0 = l.t0,
                                               !.attempts = l.attempts + 1]]
                     /\ UNCHANGED <<result, hist>>
                ELSE /\ proceed(checkRateLimitOnError.allowed,
                                checkRateLimitOnError.count, TRUE)
                     /\ hist' = [hist EXCEPT !.rlExhausted = TRUE]
          \/ \* the commit fails: the store is unavailable
             /\ faultBudget > 0
             /\ faultBudget' = faultBudget - 1
             /\ UNCHANGED rateLimits
             /\ hist' = [hist EXCEPT !.rlFault = TRUE]
             /\ proceed(checkRateLimitOnError.allowed,
                        checkRateLimitOnError.count, TRUE)
    /\ UNCHANGED <<now, inputs, session, archives, pixels, users, published, ev,
                   sessVars, snapVars, deadLetter>>

\* updatePixel, lines 212-242: the transaction function, run on one read
UPRead(p) ==
    /\ pc[p] = "up_read"
    /\ \E readFails \in {FALSE, faultBudget > 0} :
        LET id == ev[p].userId
            exists == id \in DOMAIN users
        IN  /\ loc' = [loc EXCEPT ![p].write = updatePixelTx(readFails, exists),
                                   ![p].rdver = IF readFails THEN -1
                                                ELSE VerOf(users, id)]
            /\ faultBudget' = IF readFails THEN faultBudget - 1 ELSE faultBudget
            /\ hist' = IF readFails THEN [hist EXCEPT !.upFault = TRUE] ELSE hist
    /\ pc' = [pc EXCEPT ![p] = "up_commit"]
    /\ UNCHANGED <<now, inputs, storeVars, ev, result,
                   sessVars, snapVars, deadLetter>>

\* updatePixel, lines 212-249, and the caller's branch, lines 371-377
UPCommit(p) ==
    /\ pc[p] = "up_commit"
    /\ LET id == ev[p].userId
           l == loc[p]
           e == ev[p]
           failed == /\ pc' = [pc EXCEPT ![p] = "done"]
                     /\ result' = [result EXCEPT ![p] = "Failed to place pixel"]
                     /\ loc' = [loc EXCEPT ![p].attempts = 0, ![p].write = "",
                                           ![p].rdver = 0, ![p].ts = 0]
       IN \/ \* the commit is accepted: both writes are applied
             /\ CommitValid(users, id, l.rdver)
             /\ l.write = "update" => id \in DOMAIN users
             /\ pixels' = Put(pixels, pixelID(e.x, e.y),
                              pixelDoc(IF pixelID(e.x, e.y) \in DOMAIN pixels
                                       THEN pixels[pixelID(e.x, e.y)] ELSE Empty,
                                       e, l.ts))
             /\ users' = Put(users, id,
                             userDoc(IF id \in DOMAIN users THEN users[id] ELSE Empty,
                                     l.write, e, l.ts, VerOf(users, id) + 1))
             /\ hist' = [hist EXCEPT !.writes[p] = @ + 1,
                                     !.placed[p] = @ \cup {pixelDoc(Empty, e, l.ts)},
                                     !.last = Put(@, pixelID(e.x, e.y), p),
                                     !.commits = Put(@, id,
                                         (IF id \in DOMAIN @ THEN @[id] ELSE 0) + 1)]
             /\ pc' = [pc EXCEPT ![p] = "publish"]
             /\ loc' = [loc EXCEPT ![p].attempts = 0, ![p].write = "",
                                   ![p].rdver = 0, ![p].ts = 0]
             /\ UNCHANGED <<result, faultBudget>>
          \/ \* the commit is aborted by a concurrent write: retry
             /\ ~CommitValid(users, id, l.rdver)
             /\ UNCHANGED <<pixels, users, faultBudget, hist>>
             /\ IF l.attempts + 1 < MaxAttempts
                THEN /\ pc' = [pc EXCEPT ![p] = "up_read"]
                     /\ loc' = [loc EXCEPT ![p].attempts = l.attempts + 1,
                                           ![p].write = "", ![p].rdver = 0]
                     /\ UNCHANGED result
                ELSE failed
          \/ \* the commit fails: the store is unavailable
             /\ faultBudget > 0
             /\ faultBudget' = faultBudget - 1
             /\ UNCHANGED <<pixels, users>>
             /\ hist' = [hist EXCEPT !.upFault = TRUE]
             /\ failed
    /\ UNCHANGED <<now, inputs, session, archives, rateLimits, published, ev,
                   sessVars, snapVars, deadLetter>>

\* Publish of a handler that goes on to publishPixelUpdate when updatePixel
\* returned false
PublishOnFailure(p) ==
    /\ \/ pc[p] = "publish"
       \/ /\ pc[p] = "done" /\ result[p] = "Failed to place pixel"
          /\ \A n \in published : n.by # p
    /\ published' = published \cup
         {[by |-> p, x |-> ev[p].x, y |-> ev[p].y, color |-> ev[p].color,
           userId |-> ev[p].userId, username |-> ev[p].username]}
    /\ pc' = [pc EXCEPT ![p] = "done"]
    /\ result' = [result EXCEPT ![p] = IF pc[p] = "publish" THEN "Pixel placed"
                                       ELSE result[p]]
    /\ UNCHANGED <<envVars, session, archives, pixels, users, rateLimits, ev, loc,
                   hist, sessVars, snapVars, deadLetter>>

\* lines 379-391: publishPixelUpdate, the reply, return nil
Publish(p) ==
    /\ pc[p] = "publish"
    /\ published' = published \cup
         {[by |-> p, x |-> ev[p].x, y |-> ev[p].y, color |-> ev[p].color,
           userId |-> ev[p].userId, username |-> ev[p].username]}
    /\ pc' = [pc EXCEPT ![p] = "done"]
    /\ result' = [result EXCEPT ![p] = "Pixel placed"]
    /\ UNCHANGED <<envVars, session, archives, pixels, users, rateLimits, ev, loc,
                   hist, sessVars, snapVars, deadLetter>>

\* handleCloudEvent that returns an error for every outcome but a placement
handleCloudEventReturnErrors(res) == IF res = "Pixel placed" THEN "nil" ELSE "error"

\* handleCloudEvent, lines 340-391: what the handler returns to the event
\* trigger after the outcome res of a parsed event.  Every return is nil,
\* which acknowledges the event; an error would make the trigger deliver the
\* event again (retry policy, cloud-function/main.tf:48).
handleCloudEventReturn(res) == "nil"

\* the clock advances by d seconds, up to maxT
Tick(d, maxT) ==
    /\ now + d <= maxT
    /\ now' = now + d
    /\ UNCHANGED <<faultBudget, inputs, storeVars, pixVars, hist,
                   sessVars, snapVars, deadLetter>>

(***************************************************************************)
(* Session worker: one session command, and its deliveries, per process.   *)
(* spc: "queued" -> the steps of the command -> "acked" | "nacked";        *)
(* a command whose handler threw ("nacked") is delivered again.            *)
(* A field of a command that is undefined is 0, which is as falsy.         *)
(***************************************************************************)
NoCommand == [action |-> "", userId |-> "", username |-> "", token |-> FALSE,
              canvasWidth |-> 0, canvasHeight |-> 0]

\* the locals of an invocation; attempts counts the deliveries of the command
NoSLoc == [attempts |-> 0, deletedCount |-> 0, snapshot |-> {}, data |-> Empty]

\* history of one command: pixel documents at the start of its reset, delete
\* batches its reset committed, whether another reset ran during its reset,
\* the session document its start replaced
NoSHist == [p0 |-> 0, batches |-> 0, overlap |-> FALSE, prev |-> Empty,
            started |-> FALSE]

\* v || d
orDefault(v, d) == IF v = 0 THEN d ELSE v

\* startSessionDoc without the default size (canvasWidth: metadata.canvasWidth)
startSessionDocNoDefault(metadata, t) ==
    [status |-> "active", startedAt |-> t,
     canvasWidth |-> metadata.canvasWidth,
     canvasHeight |-> metadata.canvasHeight,
     createdBy |-> metadata.userId, createdByUsername |-> metadata.username]

\* the document startSession sets
startSessionDoc(metadata, t) ==
    [status |-> "active", startedAt |-> t,
     canvasWidth |-> orDefault(metadata.canvasWidth, DefaultSessionSize),
     canvasHeight |-> orDefault(metadata.canvasHeight, DefaultSessionSize),
     createdBy |-> metadata.userId, createdByUsername |-> metadata.username]

\* pauseSessionFields that also restarts the session clock
pauseSessionFieldsRestart(t) == [status |-> "paused", pausedAt |-> t, startedAt |-> t]

\* resetCanvasFields that leaves the status as it is
resetCanvasFieldsKeepStatus(t, deletedCount) ==
    [resetAt |-> t, pixelsCleared |-> deletedCount]

\* the fields pauseSession, resumeSession and resetCanvas update
pauseSessionFields(t) == [status |-> "paused", pausedAt |-> t]
resumeSessionFields(t) == [status |-> "active", resumedAt |-> t]
resetCanvasFields(t, deletedCount) ==
    [status |-> "active", resetAt |-> t, pixelsCleared |-> deletedCount]

\* the archive document endSession sets
endSessionDoc(data, t) == Merge(data, [status |-> "ended", endedAt |-> t])

\* the collection without document id (DocumentReference.delete)
Remove(coll, ids) == [k \in DOMAIN coll \ ids |-> coll[k]]

\* limit that returns every document of the collection
limitAll(ids, n) == ids

\* the first n document ids of a query without orderBy: the order of the
\* ids, taken here as the order of (x, y).  x0 is the least x of ids and
\* row the ids of that x (each ranges over a singleton).
RECURSIVE limit(_, _)
limit(ids, n) ==
    IF Cardinality(ids) <= n THEN ids
    ELSE UNION {
           UNION { IF Cardinality(row) <= n
                   THEN row \cup limit(ids \ row, n - Cardinality(row))
                   ELSE {k \in row : Cardinality({j \in row : j[2] < k[2]}) < n}
                   : row \in {{k \in ids : k[1] = x0}} }
           : x0 \in {x \in {k[1] : k \in ids} : \A j \in ids : x <= j[1]} }

ResetSteps == {"reset_get", "reset_commit", "reset_update"}

\* lines 309-326: the follow-up with result.message when the command came
\* with an interaction token, then return (success) or throw (failure)
handlerReturn(s, m, success) ==
    /\ sres' = [sres EXCEPT ![s] = IF success THEN "success" ELSE "failed"]
    /\ replies' = IF m.token THEN [replies EXCEPT ![s] = Append(@, success)]
                  ELSE replies
    /\ spc' = [spc EXCEPT ![s] = IF success THEN "acked" ELSE "nacked"]

\* a store call of the session worker that fails
sessionStoreFails(s) ==
    /\ faultBudget > 0
    /\ faultBudget' = faultBudget - 1
    /\ handlerReturn(s, sev[s], FALSE)

\* lines 235-307: a delivery of the command, parsed and dispatched on action.
\* The function receives the command through the event trigger on the topic
\* (cloud-function/main.tf:42-51), whose retry policy delivers it again after
\* every failure of the handler; cap bounds the deliveries of one command.
\* The subscription session-worker-sub (pubsub/main.tf:80-97), which has the
\* dead-letter policy of maxDeliveryAttempts, is another subscription of the
\* topic: nothing receives from it, so it never makes a delivery attempt and
\* never forwards to the dead-letter topic.
handler(s, cap) ==
    /\ spc[s] \in {"queued", "nacked"}
    /\ sloc[s].attempts < cap
    /\ \E m \in IF spc[s] = "queued" THEN sinputs ELSE {sev[s]} :
        /\ sev' = [sev EXCEPT ![s] = m]
        /\ sloc' = [sloc EXCEPT ![s] =
                      [NoSLoc EXCEPT !.attempts = sloc[s].attempts + 1]]
        /\ IF m.action \in {"start", "pause", "resume"}
           THEN /\ spc' = [spc EXCEPT ![s] = m.action]
                /\ UNCHANGED <<sres, replies>>
           ELSE IF m.action \in {"reset", "end", "status"}
           THEN /\ spc' = [spc EXCEPT ![s] =
                             CASE m.action = "reset" -> "reset_get"
                               [] m.action = "end" -> "end_get"
                               [] OTHER -> "status_get"]
                /\ UNCHANGED <<sres, replies>>
           ELSE handlerReturn(s, m, FALSE)
        /\ shist' = IF m.action = "reset"
                    THEN LET others == {q \in DOMAIN spc \ {s} : spc[q] \in ResetSteps}
                         IN [q \in DOMAIN shist |->
                               IF q = s
                               THEN [shist[q] EXCEPT !.p0 = Cardinality(DOMAIN pixels),
                                                     !.batches = 0,
                                                     !.overlap = others # {}]
                               ELSE IF q \in others
                               THEN [shist[q] EXCEPT !.overlap = TRUE]
                               ELSE shist[q]]
                    ELSE shist
    /\ UNCHANGED <<envVars, sinputs, interactions, storeVars, pixVars, hist, snapVars, deadLetter>>

\* startSession, lines 74-94
startSession(s) ==
    /\ spc[s] = "start"
    /\ \/ /\ session' = Put(session, "current", startSessionDoc(sev[s], now))
          /\ shist' = [shist EXCEPT ![s].prev = IF "current" \in DOMAIN session
                                                THEN session["current"] ELSE Empty,
                                    ![s].started = TRUE]
          /\ handlerReturn(s, sev[s], TRUE)
          /\ UNCHANGED faultBudget
       \/ /\ sessionStoreFails(s)
          /\ UNCHANGED <<session, shist>>
    /\ UNCHANGED <<now, inputs, sinputs, interactions, archives, pixels, users, rateLimits,
                   published, pixVars, hist, snapVars, deadLetter, sev, sloc>>

\* sessionRef.update(fields), then the result of the command: the update is
\* rejected (NOT_FOUND) when the document does not exist
updateCurrent(s, fields) ==
    \/ /\ "current" \in DOMAIN session
       /\ session' = [session EXCEPT !["current"] = Merge(@, fields)]
       /\ shist' = [shist EXCEPT ![s].prev = session["current"]]
       /\ handlerReturn(s, sev[s], TRUE)
       /\ UNCHANGED faultBudget
    \/ /\ "current" \notin DOMAIN session
       /\ handlerReturn(s, sev[s], FALSE)
       /\ UNCHANGED <<session, faultBudget, shist>>
    \/ /\ sessionStoreFails(s)
       /\ UNCHANGED <<session, shist>>

\* pauseSession, lines 99-112
pauseSession(s) ==
    /\ spc[s] = "pause"
    /\ updateCurrent(s, pauseSessionFields(now))
    /\ UNCHANGED <<now, inputs, sinputs, interactions, archives, pixels, users, rateLimits,
                   published, pixVars, hist, snapVars, deadLetter, sev, sloc>>

\* resumeSession, lines 117-130
resumeSession(s) ==
    /\ spc[s] = "resume"
    /\ updateCurrent(s, resumeSessionFields(now))
    /\ UNCHANGED <<now, inputs, sinputs, interactions, archives, pixels, users, rateLimits,
                   published, pixVars, hist, snapVars, deadLetter, sev, sloc>>

\* resetCanvas, lines 143-148: the query of the next batch
resetCanvasGet(s) ==
    /\ spc[s] = "reset_get"
    /\ \/ LET snapshot == limit(DOMAIN pixels, batchSize)
          IN  /\ IF snapshot = {}
                 THEN /\ spc' = [spc EXCEPT ![s] = "reset_update"]
                      /\ UNCHANGED sloc
                 ELSE /\ spc' = [spc EXCEPT ![s] = "reset_commit"]
                      /\ sloc' = [sloc EXCEPT ![s].snapshot = snapshot]
              /\ UNCHANGED <<faultBudget, sres, replies>>
       \/ /\ sessionStoreFails(s)
          /\ UNCHANGED sloc
    /\ UNCHANGED <<now, inputs, sinputs, interactions, storeVars, pixVars, hist, snapVars, deadLetter, sev, shist>>

\* resetCanvas, lines 150-156: the batch of deletes is committed
resetCanvasCommit(s) ==
    /\ spc[s] = "reset_commit"
    /\ \/ /\ pixels' = Remove(pixels, sloc[s].snapshot)
          /\ sloc' = [sloc EXCEPT ![s].deletedCount =
                                      @ + Cardinality(sloc[s].snapshot),
                                  ![s].snapshot = {}]
          /\ shist' = [shist EXCEPT ![s].batches = @ + 1]
          /\ spc' = [spc EXCEPT ![s] = "reset_get"]
          /\ UNCHANGED <<faultBudget, sres, replies>>
       \/ /\ sessionStoreFails(s)
          /\ UNCHANGED <<pixels, sloc, shist>>
    /\ UNCHANGED <<now, inputs, sinputs, interactions, session, archives, users, rateLimits,
                   published, pixVars, hist, snapVars, deadLetter, sev>>

\* resetCanvas, lines 159-170: the session document is updated
resetCanvasUpdate(s) ==
    /\ spc[s] = "reset_update"
    /\ updateCurrent(s, resetCanvasFields(now, sloc[s].deletedCount))
    /\ UNCHANGED <<now, inputs, sinputs, interactions, archives, pixels, users, rateLimits,
                   published, pixVars, hist, snapVars, deadLetter, sev, sloc>>

\* endSessionGet without the check of sessionDoc.exists
endSessionGetUnchecked(s) ==
    /\ spc[s] = "end_get"
    /\ sloc' = [sloc EXCEPT ![s].data =
                  IF "current" \in DOMAIN session THEN session["current"] ELSE Empty]
    /\ spc' = [spc EXCEPT ![s] = "end_archive"]
    /\ UNCHANGED <<faultBudget, sres, replies>>
    /\ UNCHANGED <<now, inputs, sinputs, interactions, storeVars, pixVars, hist, snapVars, deadLetter, sev, shist>>

\* endSession, lines 176-181: the current document is read
endSessionGet(s) ==
    /\ spc[s] = "end_get"
    /\ \/ /\ "current" \in DOMAIN session
          /\ sloc' = [sloc EXCEPT ![s].data = session["current"]]
          /\ spc' = [spc EXCEPT ![s] = "end_archive"]
          /\ UNCHANGED <<faultBudget, sres, replies>>
       \/ /\ "current" \notin DOMAIN session
          /\ handlerReturn(s, sev[s], TRUE)
          /\ UNCHANGED <<faultBudget, sloc>>
       \/ /\ sessionStoreFails(s)
          /\ UNCHANGED sloc
    /\ UNCHANGED <<now, inputs, sinputs, interactions, storeVars, pixVars, hist, snapVars, deadLetter, sev, shist>>

\* endSession, lines 184-189: the archive document archive_<now> is set
endSessionArchive(s) ==
    /\ spc[s] = "end_archive"
    /\ \/ /\ archives' = Put(archives, now, endSessionDoc(sloc[s].data, now))
          /\ spc' = [spc EXCEPT ![s] = "end_delete"]
          /\ UNCHANGED <<faultBudget, sres, replies>>
       \/ /\ sessionStoreFails(s)
          /\ UNCHANGED archives
    /\ UNCHANGED <<now, inputs, sinputs, interactions, session, pixels, users, rateLimits,
                   published, pixVars, hist, snapVars, deadLetter, sev, sloc, shist>>

\* endSessionDelete that deletes the pixel documents with the session
endSessionDeleteWithPixels(s) ==
    /\ spc[s] = "end_delete"
    /\ session' = Remove(session, {"current"})
    /\ pixels' = Empty
    /\ handlerReturn(s, sev[s], TRUE)
    /\ UNCHANGED <<now, faultBudget, inputs, sinputs, interactions, archives, users, rateLimits,
                   published, pixVars, hist, snapVars, deadLetter, sev, sloc, shist>>

\* endSession, lines 191-198: the current document is deleted
endSessionDelete(s) ==
    /\ spc[s] = "end_delete"
    /\ \/ /\ session' = Remove(session, {"current"})
          /\ handlerReturn(s, sev[s], TRUE)
          /\ UNCHANGED faultBudget
       \/ /\ sessionStoreFails(s)
          /\ UNCHANGED session
    /\ UNCHANGED <<now, inputs, sinputs, interactions, archives, pixels, users, rateLimits,
                   published, pixVars, hist, snapVars, deadLetter, sev, sloc, shist>>

\* getCanvasStatus, lines 206-211: the current document is read
getCanvasStatusGet(s) ==
    /\ spc[s] = "status_get"
    /\ \/ /\ "current" \in DOMAIN session
          /\ spc' = [spc EXCEPT ![s] = "status_count"]
          /\ UNCHANGED <<faultBudget, sres, replies>>
       \/ /\ "current" \notin DOMAIN session
          /\ handlerReturn(s, sev[s], TRUE)
          /\ UNCHANGED faultBudget
       \/ sessionStoreFails(s)
    /\ UNCHANGED <<now, inputs, sinputs, interactions, storeVars, pixVars, hist, snapVars, deadLetter, sev, sloc,
                   shist>>

\* getCanvasStatus, lines 213-226: the pixel documents are counted
getCanvasStatusCount(s) ==
    /\ spc[s] = "status_count"
    /\ \/ /\ handlerReturn(s, sev[s], TRUE)
          /\ UNCHANGED faultBudget
       \/ sessionStoreFails(s)
    /\ UNCHANGED <<now, inputs, sinputs, interactions, storeVars, pixVars, hist, snapVars, deadLetter, sev, sloc,
                   shist>>

\* no session command is published
NoSessionWorker ==
    /\ interactions = {}
    /\ sinputs = {}
    /\ spc = Empty /\ sev = Empty /\ sloc = Empty /\ sres = Empty
    /\ replies = Empty /\ shist = Empty

\* the session worker with the commands of cmds to deliver to procs
SessionWorker(procs, cmds) ==
    /\ interactions = {}
    /\ sinputs = cmds
    /\ spc = [s \in procs |-> "queued"]
    /\ sev = [s \in procs |-> NoCommand]
    /\ sloc = [s \in procs |-> NoSLoc]
    /\ sres = [s \in procs |-> ""]
    /\ replies = [s \in procs |-> <<>>]
    /\ shist = [s \in procs |-> NoSHist]

(***************************************************************************)
(* Snapshot worker: one run of handleCloudEvent.  The tile jobs and the    *)
(* thumbnail job are goroutines that share the semaphore sem of maxWorkers *)
(* slots; a job is "waiting" (blocked on sem), "running" (holds a slot),   *)
(* then "done".  An uploaded object is kept in bucket under its path; the  *)
(* URL of an object is its path, <<>> when there is none.                  *)
(* snap.pc: "start" -> "pixels" -> "wait" -> "returned".                   *)
(***************************************************************************)
NoSnap == [pc |-> "start", req |-> [channelId |-> "", token |-> FALSE],
           canvasW |-> 0, canvasH |-> 0, pixels |-> {}, timestamp |-> 0,
           maxWorkers |-> 0, results |-> <<>>, thumb |-> "none",
           thumbURL |-> <<>>, manifest |-> Empty, manifestURL |-> <<>>,
           posted |-> FALSE, reply |-> "", ret |-> "", failed |-> 0]

Min(a, b) == IF a < b THEN a ELSE b
Max(a, b) == IF a > b THEN a ELSE b

\* the quotient of Go's integer division, which truncates toward zero
goDiv(a, b) == IF a >= 0 THEN a \div b ELSE 0 - ((0 - a) \div b)

\* lines 314-324: the size of the canvas from the session document read
canvasSize(sess, err, name) ==
    IF ~err /\ "current" \in DOMAIN sess /\ toInt(sess["current"], name) > 0
    THEN toInt(sess["current"], name) ELSE defaultCanvas

\* poolSize without the clamp to 4..32
poolSizeUnclamped(n) == n * 2

\* lines 357-363: the size of the pool on a machine of n CPUs
poolSize(n) == Max(4, Min(32, n * 2))

\* the value of a hexadecimal digit
HexVal(ch) ==
    CASE ch = "0" -> 0 [] ch = "1" -> 1 [] ch = "2" -> 2 [] ch = "3" -> 3
      [] ch = "4" -> 4 [] ch = "5" -> 5 [] ch = "6" -> 6 [] ch = "7" -> 7
      [] ch = "8" -> 8 [] ch = "9" -> 9
      [] ch \in {"A", "a"} -> 10 [] ch \in {"B", "b"} -> 11
      [] ch \in {"C", "c"} -> 12 [] ch \in {"D", "d"} -> 13
      [] ch \in {"E", "e"} -> 14 [] ch \in {"F", "f"} -> 15
      [] OTHER -> 0

\* parseColor: the red, green and blue of a color string; black when the
\* string, a leading # taken off, does not have 6 characters
parseColor(c) ==
    LET h == IF Len(c) > 0 /\ c[1] = "#" THEN Tail(c) ELSE c
    IN  IF Len(h) # 6 THEN <<0, 0, 0>>
        ELSE <<HexVal(h[1]) * 16 + HexVal(h[2]), HexVal(h[3]) * 16 + HexVal(h[4]),
               HexVal(h[5]) * 16 + HexVal(h[6])>>

\* tileKey with the two indices exchanged
tileKeyTransposed(p) == <<goDiv(p.y, tileSize), goDiv(p.x, tileSize)>>

\* line 350: the key of the tile of pixel p
tileKey(p) == <<goDiv(p.x, tileSize), goDiv(p.y, tileSize)>>

\* lines 347-354: the pixels inside the canvas, grouped by tile
tilePixelMap(px, canvasW, canvasH) ==
    LET inside == {p \in px : p.x >= 0 /\ p.x < canvasW /\ p.y >= 0 /\ p.y < canvasH}
    IN  [k \in {tileKey(p) : p \in inside} |-> {p \in inside : tileKey(p) = k}]

\* the image with the cells of set at into which the pixels of px fall
\* painted: img.Set outside the image does nothing, and of the pixels of one
\* cell the last one of the list paints it (the list is in the order of the
\* document ids, taken here as the order of (x, y))
paint(w, h, px, at(_)) ==
    LET cells == {at(p) : p \in px} \cap ((0..(w - 1)) \X (0..(h - 1)))
        last(c) == CHOOSE p \in px :
                      /\ at(p) = c
                      /\ \A q \in px : at(q) = c =>
                            (q.x < p.x \/ (q.x = p.x /\ q.y <= p.y))
    IN  [w |-> w, h |-> h, cells |-> [c \in cells |-> parseColor(last(c).color)]]

\* generateTile, lines 167-186
generateTile(px, tx, ty, canvasW, canvasH) ==
    LET startX == tx * tileSize
        startY == ty * tileSize
        at(p) == <<p.x - startX, p.y - startY>>
    IN  paint(Min(startX + tileSize, canvasW) - startX,
              Min(startY + tileSize, canvasH) - startY, px, at)

\* v * scale of generateThumbnail, truncated, in exact arithmetic
scaled(v, canvasW, canvasH) ==
    IF Max(canvasW, canvasH) <= thumbnailMaxSize THEN v
    ELSE (v * thumbnailMaxSize) \div Max(canvasW, canvasH)

\* generateThumbnail, lines 188-212
generateThumbnail(px, canvasW, canvasH) ==
    LET inside == {p \in px : p.x >= 0 /\ p.x < canvasW /\ p.y >= 0 /\ p.y < canvasH}
        at(p) == <<scaled(p.x, canvasW, canvasH), scaled(p.y, canvasW, canvasH)>>
    IN  paint(Max(1, scaled(canvasW, canvasW, canvasH)),
              Max(1, scaled(canvasH, canvasW, canvasH)), inside, at)

\* the jobs that hold a slot of sem
RunningJobs ==
    Cardinality({k \in DOMAIN tiles : tiles[k] = "running"})
        + (IF snap.thumb = "running" THEN 1 ELSE 0)

\* lines 311-324: the session document is read for the size of the canvas
SnapshotStart ==
    /\ snap.pc = "start"
    /\ \E err \in {FALSE, faultBudget > 0} :
        /\ snap' = [snap EXCEPT !.pc = "pixels",
                                !.canvasW = canvasSize(session, err, "canvasWidth"),
                                !.canvasH = canvasSize(session, err, "canvasHeight")]
        /\ faultBudget' = IF err THEN faultBudget - 1 ELSE faultBudget
    /\ UNCHANGED <<now, inputs, storeVars, pixVars, hist, sessVars, deadLetter, tiles, bucket>>

\* lines 335-399: getAllPixels, the grouping, and the jobs are started on a
\* machine of one of the numbers of CPUs of cpus
SnapshotGetPixels(cpus) ==
    /\ snap.pc = "pixels"
    /\ \/ \E n \in cpus :
            LET px == {[x |-> pixels[c].x, y |-> pixels[c].y,
                        color |-> pixels[c].color] : c \in DOMAIN pixels}
                groups == tilePixelMap(px, snap.canvasW, snap.canvasH)
            IN  /\ snap' = [snap EXCEPT !.pc = "wait", !.pixels = px,
                                        !.timestamp = now,
                                        !.maxWorkers = poolSize(n),
                                        !.thumb = "waiting"]
                /\ tiles' = [k \in DOMAIN groups |-> "waiting"]
                /\ UNCHANGED faultBudget
       \/ /\ faultBudget > 0
          /\ faultBudget' = faultBudget - 1
          /\ snap' = [snap EXCEPT !.pc = "returned", !.ret = "error",
                                  !.reply = IF snap.req.token
                                            THEN "Failed to get pixels" ELSE ""]
          /\ UNCHANGED tiles
    /\ UNCHANGED <<now, inputs, storeVars, pixVars, hist, sessVars, deadLetter, bucket>>

\* line 373: the job of tile k takes a slot of sem
TileAcquire(k) ==
    /\ snap.pc = "wait" /\ tiles[k] = "waiting"
    /\ RunningJobs < snap.maxWorkers
    /\ tiles' = [tiles EXCEPT ![k] = "running"]
    /\ UNCHANGED <<envVars, storeVars, pixVars, hist, sessVars, deadLetter, snap, bucket>>

\* TileFinish that appends the result of the tile whether or not the
\* upload succeeded
TileFinishKeepsFailed(k) ==
    /\ snap.pc = "wait" /\ tiles[k] = "running"
    /\ tiles' = [tiles EXCEPT ![k] = "done"]
    /\ LET path == <<snap.timestamp, "tile", k[1], k[2]>>
           data == generateTile(tilePixelMap(snap.pixels, snap.canvasW,
                                             snap.canvasH)[k],
                                k[1], k[2], snap.canvasW, snap.canvasH)
           appended == [snap EXCEPT !.results =
                            Append(@, [x |-> k[1], y |-> k[2], url |-> path])]
       IN \/ /\ bucket' = Put(bucket, path, data)
             /\ snap' = appended
             /\ UNCHANGED faultBudget
          \/ /\ faultBudget > 0
             /\ faultBudget' = faultBudget - 1
             /\ snap' = [appended EXCEPT !.failed = @ + 1]
             /\ UNCHANGED bucket
    /\ UNCHANGED <<now, inputs, storeVars, pixVars, hist, sessVars, deadLetter>>

\* TileFinish whose return after a failed upload skips the deferred release
\* of the slot and the deferred wg.Done
TileFinishNoRelease(k) ==
    /\ snap.pc = "wait" /\ tiles[k] = "running"
    /\ LET path == <<snap.timestamp, "tile", k[1], k[2]>>
           data == generateTile(tilePixelMap(snap.pixels, snap.canvasW,
                                             snap.canvasH)[k],
                                k[1], k[2], snap.canvasW, snap.canvasH)
       IN \/ /\ bucket' = Put(bucket, path, data)
             /\ tiles' = [tiles EXCEPT ![k] = "done"]
             /\ snap' = [snap EXCEPT !.results =
                            Append(@, [x |-> k[1], y |-> k[2], url |-> path])]
             /\ UNCHANGED faultBudget
          \/ /\ faultBudget > 0
             /\ faultBudget' = faultBudget - 1
             /\ tiles' = [tiles EXCEPT ![k] = "failed"]
             /\ snap' = [snap EXCEPT !.failed = @ + 1]
             /\ UNCHANGED bucket
    /\ UNCHANGED <<now, inputs, storeVars, pixVars, hist, sessVars, deadLetter>>

\* lines 376-387: the tile is generated and uploaded, its result appended
\* when the upload succeeded, and the slot released
TileFinish(k) ==
    /\ snap.pc = "wait" /\ tiles[k] = "running"
    /\ tiles' = [tiles EXCEPT ![k] = "done"]
    /\ LET path == <<snap.timestamp, "tile", k[1], k[2]>>
           data == generateTile(tilePixelMap(snap.pixels, snap.canvasW,
                                             snap.canvasH)[k],
                                k[1], k[2], snap.canvasW, snap.canvasH)
       IN \/ /\ bucket' = Put(bucket, path, data)
             /\ snap' = [snap EXCEPT !.results =
                            Append(@, [x |-> k[1], y |-> k[2], url |-> path])]
             /\ UNCHANGED faultBudget
          \/ /\ faultBudget > 0
             /\ faultBudget' = faultBudget - 1
             /\ snap' = [snap EXCEPT !.failed = @ + 1]
             /\ UNCHANGED bucket
    /\ UNCHANGED <<now, inputs, storeVars, pixVars, hist, sessVars, deadLetter>>

\* line 394: the thumbnail job takes a slot of sem
ThumbAcquire ==
    /\ snap.pc = "wait" /\ snap.thumb = "waiting"
    /\ RunningJobs < snap.maxWorkers
    /\ snap' = [snap EXCEPT !.thumb = "running"]
    /\ UNCHANGED <<envVars, storeVars, pixVars, hist, sessVars, deadLetter, tiles, bucket>>

\* lines 397-398: the thumbnail is generated and uploaded, the slot released
ThumbFinish ==
    /\ snap.pc = "wait" /\ snap.thumb = "running"
    /\ LET path == <<snap.timestamp, "thumbnail">>
       IN \/ /\ bucket' = Put(bucket, path,
                    generateThumbnail(snap.pixels, snap.canvasW, snap.canvasH))
             /\ snap' = [snap EXCEPT !.thumb = "done", !.thumbURL = path]
             /\ UNCHANGED faultBudget
          \/ /\ faultBudget > 0
             /\ faultBudget' = faultBudget - 1
             /\ snap' = [snap EXCEPT !.thumb = "done", !.failed = @ + 1]
             /\ UNCHANGED bucket
    /\ UNCHANGED <<now, inputs, storeVars, pixVars, hist, sessVars, deadLetter, tiles>>

\* the quotient rounded up (math.Ceil of the division)
ceilDiv(a, b) == (a + b - 1) \div b

\* lines 404-414: the manifest of the run
Manifest(s) ==
    [timestamp |-> s.timestamp, canvasWidth |-> s.canvasW,
     canvasHeight |-> s.canvasH, tileSize |-> tileSize,
     tilesX |-> ceilDiv(s.canvasW, tileSize), tilesY |-> ceilDiv(s.canvasH, tileSize),
     tiles |-> s.results, thumbnailUrl |-> s.thumbURL,
     pixelCount |-> Cardinality(s.pixels)]

\* wg.Wait that waits for the thumbnail job only
JobsFinishedThumbnailOnly == snap.thumb = "done"

\* line 401, wg.Wait: every tile job and the thumbnail job have called Done
JobsFinished ==
    /\ snap.thumb = "done"
    /\ \A k \in DOMAIN tiles : tiles[k] = "done"

\* lines 401-447: after wg.Wait, the manifest is built and uploaded (an error
\* of the upload is dropped), the channel post and the follow-up are sent
\* and the handler returns nil
SnapshotManifest ==
    /\ snap.pc = "wait"
    /\ JobsFinished
    /\ LET m == Manifest(snap)
           path == <<snap.timestamp, "manifest">>
           done(url, failed) ==
               snap' = [snap EXCEPT !.pc = "returned", !.ret = "nil",
                                    !.manifest = m, !.manifestURL = url,
                                    !.posted = (snap.req.channelId # ""),
                                    !.reply = IF snap.req.token
                                              THEN "Snapshot generated" ELSE "",
                                    !.failed = @ + failed]
       IN \/ /\ bucket' = Put(bucket, path, m)
             /\ done(path, 0)
             /\ UNCHANGED faultBudget
          \/ /\ faultBudget > 0
             /\ faultBudget' = faultBudget - 1
             /\ done(<<>>, 1)
             /\ UNCHANGED bucket
    /\ UNCHANGED <<now, inputs, storeVars, pixVars, hist, sessVars, deadLetter, tiles>>

\* no snapshot is requested
NoSnapshotWorker ==
    /\ snap = [NoSnap EXCEPT !.pc = "returned"]
    /\ tiles = Empty
    /\ bucket = Empty
    /\ deadLetter = {}

NoHist(procs) == [writes |-> [p \in procs |-> 0], last |-> Empty, commits |-> Empty,
                  rlFault |-> FALSE, rlExhausted |-> FALSE, upFault |-> FALSE,
                  base |-> 0, placed |-> [p \in procs |-> {}]]

(***************************************************************************)
(* Values of the inputs.                                                   *)
(***************************************************************************)
Red == <<"F", "F", "0", "0", "0", "0">>
Green == <<"0", "0", "f", "f", "0", "0">>

ActiveSession(w, h, t) ==
    "current" :> [status |-> "active", startedAt |-> t, canvasWidth |-> w,
                  canvasHeight |-> h, createdBy |-> "A1",
                  createdByUsername |-> "admin"]

\* the counter document of user u in the window of time 0 after c placements
CounterAfter(u, c) ==
    IF c = 0 THEN Empty
    ELSE rateLimitId(u, 0) :> [count |-> c, userId |-> u, window |-> 0,
                               expiresAt |-> rateLimitWindow * 2, ver |-> c]

(***************************************************************************)
(* SpecRate: concurrent placements of one user inside one window, on a     *)
(* counter that earlier placements of the window have brought to c0.       *)
(***************************************************************************)
NumRateProcs == 3
RateProcs == 1..NumRateProcs
RateInitCounts == {0, 18, 19, 20}

InitRate ==
    /\ now = 0
    /\ faultBudget = 0
    /\ session = ActiveSession(DefaultSessionSize, DefaultSessionSize, 0)
    /\ archives = Empty
    /\ pixels = Empty
    /\ users = Empty
    /\ published = {}
    /\ inputs = {[x |-> 5, y |-> 5, color |-> Red, userId |-> "U1",
                  username |-> "u1", source |-> "web"]}
    /\ \E c0 \in RateInitCounts :
          /\ rateLimits = CounterAfter("U1", c0)
          /\ hist = [NoHist(RateProcs) EXCEPT !.base = c0]
    /\ pc = [p \in RateProcs |-> "start"]
    /\ ev = [p \in RateProcs |-> NoEvent]
    /\ loc = [p \in RateProcs |-> NoTx]
    /\ result = [p \in RateProcs |-> ""]
    /\ NoSessionWorker
    /\ NoSnapshotWorker

NextRate ==
    \/ \E p \in RateProcs : HandleStart(p)
    \/ \E p \in RateProcs : RLRead(p)
    \/ \E p \in RateProcs : RLCommit(p)
    \/ \E p \in RateProcs : UPRead(p)
    \/ \E p \in RateProcs : UPCommit(p)
    \/ \E p \in RateProcs : Publish(p)

SpecRate == InitRate /\ [][NextRate]_vars

\* checkRateLimit has returned to invocation p, and what it returned
Allowed(p) ==
    \/ pc[p] \in {"up_read", "up_commit", "publish"}
    \/ pc[p] = "done" /\ result[p] \in {"Pixel placed", "Failed to place pixel"}
Denied(p) == pc[p] = "done" /\ result[p] = "Rate limit exceeded"

\* the placements of the window that were allowed: the earlier ones, which
\* brought the counter to hist.base, and those of the invocations
AllowedInWindow == hist.base + Cardinality({p \in DOMAIN pc : Allowed(p)})

\* C1: one user, one window, no counter-store failure: never more than
\* rateLimitMax placements are allowed, and once all N > rateLimitMax
\* placements have been through checkRateLimit exactly rateLimitMax were
\* allowed and the others denied.
C1_ExactlyMaxAllowed ==
    ~hist.rlFault =>
        /\ AllowedInWindow <= rateLimitMax
        /\ ( /\ \A p \in DOMAIN pc : Allowed(p) \/ Denied(p)
             /\ hist.base + Cardinality(DOMAIN pc) > rateLimitMax )
           => AllowedInWindow = rateLimitMax

\* C1, the case it is about: more than rateLimitMax placements, all decided
C1_AllDecided ==
    /\ ~hist.rlFault
    /\ hist.base + Cardinality(DOMAIN pc) > rateLimitMax
    /\ \A p \in DOMAIN pc : Allowed(p) \/ Denied(p)

\* C8: a placement whose tryConsume found the counter at count >= max is
\* denied with the stored count, rateLimitMax, and has written nothing to
\* the store.
C8_DeniedWritesNothing ==
    \A p \in DOMAIN pc :
        Denied(p) =>
            /\ loc[p].count = rateLimitMax
            /\ rateLimitId(ev[p].userId, 0) \in DOMAIN rateLimits
            /\ loc[p].count = rateLimits[rateLimitId(ev[p].userId, 0)].count
            /\ hist.writes[p] = 0

C8_SomeDenied == \E p \in DOMAIN pc : Denied(p) /\ hist.base < rateLimitMax

(***************************************************************************)
(* SpecPlace: concurrent placements of two users at one coordinate, on a   *)
(* store that may fail MaxFaults times.                                    *)
(***************************************************************************)
NumPlaceProcs == 2
PlaceProcs == 1..NumPlaceProcs
MaxFaults == 1

InitPlace ==
    /\ now = 0
    /\ faultBudget = MaxFaults
    /\ session = ActiveSession(DefaultSessionSize, DefaultSessionSize, 0)
    /\ archives = Empty
    /\ rateLimits = Empty
    /\ published = {}
    /\ inputs = {[x |-> 5, y |-> 5, color |-> Red, userId |-> "U1",
                  username |-> "u1", source |-> ""],
                 [x |-> 5, y |-> 5, color |-> Green, userId |-> "U2",
                  username |-> "u2", source |-> "discord"]}
    /\ \/ /\ pixels = Empty
          /\ users = Empty
          /\ hist = NoHist(PlaceProcs)
       \/ \* the pixel has been placed before, by a third user
          /\ pixels = pixelID(5, 5) :>
                [x |-> 5, y |-> 5, color |-> Green, userId |-> "U0",
                 username |-> "u0", source |-> "web", updatedAt |-> 0]
          /\ users = "U0" :> [id |-> "U0", username |-> "u0", lastPixelAt |-> 0,
                              pixelCount |-> 1, createdAt |-> 0, ver |-> 1]
          /\ hist = [NoHist(PlaceProcs) EXCEPT !.commits = "U0" :> 1]
       \/ \* the pixel has been placed before, by the first user, who has
          \* placed three pixels
          /\ pixels = pixelID(5, 5) :>
                [x |-> 5, y |-> 5, color |-> Green, userId |-> "U1",
                 username |-> "u1", source |-> "web", updatedAt |-> 0]
          /\ users = "U1" :> [id |-> "U1", username |-> "u1", lastPixelAt |-> 0,
                              pixelCount |-> 3, createdAt |-> 0, ver |-> 3]
          /\ hist = [NoHist(PlaceProcs) EXCEPT !.commits = "U1" :> 3]
    /\ pc = [p \in PlaceProcs |-> "start"]
    /\ ev = [p \in PlaceProcs |-> NoEvent]
    /\ loc = [p \in PlaceProcs |-> NoTx]
    /\ result = [p \in PlaceProcs |-> ""]
    /\ NoSessionWorker
    /\ NoSnapshotWorker

NextPlace ==
    \/ \E p \in PlaceProcs : HandleStart(p)
    \/ \E p \in PlaceProcs : RLRead(p)
    \/ \E p \in PlaceProcs : RLCommit(p)
    \/ \E p \in PlaceProcs : UPRead(p)
    \/ \E p \in PlaceProcs : UPCommit(p)
    \/ \E p \in PlaceProcs : Publish(p)

SpecPlace == InitPlace /\ [][NextPlace]_vars

\* the transaction of updatePixel has committed for invocation p
Committed(p) == pc[p] = "publish" \/ (pc[p] = "done" /\ result[p] = "Pixel placed")

\* C2: the pixel document at a coordinate equals, field for field, the
\* payload of the placement whose transaction committed last there, and is
\* stored under the id of its own x and y.
C2_LastWriterWins ==
    \A c \in DOMAIN pixels :
        /\ pixels[c].x = c[1] /\ pixels[c].y = c[2]
        /\ c \in DOMAIN hist.last =>
              LET e == ev[hist.last[c]]
              IN  /\ pixels[c].color = e.color
                  /\ pixels[c].userId = e.userId
                  /\ pixels[c].username = e.username
                  /\ pixels[c].source = e.source

\* C2, the case it is about: two placements with different payloads have
\* both committed at the coordinate
C2_TwoCommitted ==
    \E p, q \in DOMAIN pc :
        /\ Committed(p) /\ Committed(q)
        /\ ev[p].userId # ev[q].userId
        /\ pixelID(ev[p].x, ev[p].y) = pixelID(ev[q].x, ev[q].y)

\* C3: the pixelCount of every user equals the number of that user's
\* placements whose pixel write committed.
C3_CountEqualsCommits ==
    /\ DOMAIN hist.commits = DOMAIN users
    /\ \A u \in DOMAIN users : users[u].pixelCount = hist.commits[u]

(***************************************************************************)
(* SpecSession: two session commands handled concurrently, on a store with *)
(* no session, an active session or a paused session, while time passes.   *)
(***************************************************************************)
NumSessionProcs == 2
SessionProcs == 1..NumSessionProcs
MaxTime == 2
SessionDeliveries == 2

Command(action, w, h, token) ==
    [action |-> action, userId |-> "A1", username |-> "admin", token |-> token,
     canvasWidth |-> w, canvasHeight |-> h]

PausedSession(w, h, t) ==
    "current" :> [status |-> "paused", startedAt |-> 0, canvasWidth |-> w,
                  canvasHeight |-> h, createdBy |-> "A1",
                  createdByUsername |-> "admin", pausedAt |-> t]

OnePixel(x, y, u) ==
    pixelID(x, y) :> [x |-> x, y |-> y, color |-> Red, userId |-> u,
                      username |-> "u", source |-> "web", updatedAt |-> 0]

InitSession ==
    /\ now = 1
    /\ faultBudget = 0
    /\ session \in {Empty, ActiveSession(50, 50, 0), PausedSession(50, 50, 1)}
    /\ archives = Empty
    /\ pixels = OnePixel(5, 5, "U1")
    /\ users = Empty
    /\ rateLimits = Empty
    /\ published = {}
    /\ inputs = {}
    /\ pc = Empty /\ ev = Empty /\ loc = Empty /\ result = Empty
    /\ hist = NoHist({})
    /\ SessionWorker(SessionProcs,
                     {Command("start", 0, 0, TRUE), Command("start", 10, 100000, FALSE),
                      Command("pause", 0, 0, TRUE), Command("resume", 0, 0, TRUE),
                      Command("reset", 0, 0, TRUE), Command("end", 0, 0, TRUE),
                      Command("status", 0, 0, TRUE)})
    /\ NoSnapshotWorker

NextSession ==
    \/ \E s \in SessionProcs : handler(s, SessionDeliveries)
    \/ \E s \in SessionProcs : startSession(s)
    \/ \E s \in SessionProcs : pauseSession(s)
    \/ \E s \in SessionProcs : resumeSession(s)
    \/ \E s \in SessionProcs : resetCanvasGet(s)
    \/ \E s \in SessionProcs : resetCanvasCommit(s)
    \/ \E s \in SessionProcs : resetCanvasUpdate(s)
    \/ \E s \in SessionProcs : endSessionGet(s)
    \/ \E s \in SessionProcs : endSessionArchive(s)
    \/ \E s \in SessionProcs : endSessionDelete(s)
    \/ \E s \in SessionProcs : getCanvasStatusGet(s)
    \/ \E s \in SessionProcs : getCanvasStatusCount(s)
    \/ Tick(1, MaxTime)

SpecSession == InitSession /\ [][NextSession]_vars
\* the state of the current session: its status, "none" without a record
StateOf(sess) == IF "current" \in DOMAIN sess THEN sess["current"].status ELSE "none"

\* invocation s takes its step at position step
Steps(s, step) == spc[s] = step /\ spc'[s] # step

\* the state changes only by start (to active), pause (active to paused),
\* resume (paused to active), reset (to active) and end (record removed, an
\* archive with status ended exists)
StateTransitions ==
    StateOf(session') # StateOf(session) =>
        \E s \in DOMAIN spc :
            \/ Steps(s, "start") /\ StateOf(session') = "active"
            \/ /\ Steps(s, "pause")
               /\ StateOf(session) = "active" /\ StateOf(session') = "paused"
            \/ /\ Steps(s, "resume")
               /\ StateOf(session) = "paused" /\ StateOf(session') = "active"
            \/ Steps(s, "reset_update") /\ StateOf(session') = "active"
            \/ /\ Steps(s, "end_delete")
               /\ StateOf(session') = "none"
               /\ \E a \in DOMAIN archives' : archives'[a].status = "ended"

\* pause and resume change no field other than the state and their own
\* timestamp
PauseResumeFrame ==
    \A s \in DOMAIN spc :
        \A step \in {"pause", "resume"} :
            (Steps(s, step) /\ "current" \in DOMAIN session) =>
                LET own == {"status", IF step = "pause" THEN "pausedAt"
                                      ELSE "resumedAt"}
                    old == session["current"]
                IN  /\ "current" \in DOMAIN session'
                    /\ DOMAIN session'["current"] \ own = DOMAIN old \ own
                    /\ \A f \in DOMAIN old \ own : session'["current"][f] = old[f]

\* invocation s takes the step of a pause on a session that is not active
\* or of a resume on a session that is not paused
Misapplied(s) ==
    \/ Steps(s, "pause") /\ StateOf(session) # "active"
    \/ Steps(s, "resume") /\ StateOf(session) # "paused"

\* C9: the session state changes only along start, pause, resume, reset
\* and end; a pause of a session that is not active and a resume of a
\* session that is not paused do not change the session record; pause and
\* resume change no field other than the state and their own timestamp.
C9_SessionStateMachine ==
    [][ /\ StateTransitions
        /\ PauseResumeFrame
        /\ \A s \in DOMAIN spc : Misapplied(s) => session' = session ]_vars

\* C9 as the code has it: a pause of a session that is not active and a
\* resume of a session that is not paused leave the state and every field
\* but their own timestamp unchanged (the timestamp is overwritten); the
\* rest as in C9.
C9_SessionStateMachineTimestamps ==
    [][ /\ StateTransitions
        /\ PauseResumeFrame
        /\ \A s \in DOMAIN spc :
              Misapplied(s) => StateOf(session') = StateOf(session) ]_vars

\* C9, the case it is about: a pause has been applied to a paused session
\* that had been paused at an earlier time
C9_PauseOnPaused ==
    \E s \in DOMAIN spc :
        /\ sev[s].action = "pause" /\ spc[s] = "acked"
        /\ StateOf("current" :> shist[s].prev) = "paused"
        /\ shist[s].prev.pausedAt < now

\* C10: right after start() the current session record exists, is active,
\* has startedAt set to the time of the start, has the width and height of
\* the command where given and 100 where not, and has none of pausedAt,
\* resumedAt, resetAt, pixelsCleared, whatever the record was before.
C10_StartPostcondition ==
    [][ \A s \in DOMAIN spc :
          (Steps(s, "start") /\ spc'[s] = "acked") =>
              /\ "current" \in DOMAIN session'
              /\ LET d == session'["current"]
                     m == sev[s]
                 IN  /\ d.status = "active"
                     /\ "startedAt" \in DOMAIN d /\ d.startedAt = now
                     /\ d.canvasWidth = IF m.canvasWidth # 0 THEN m.canvasWidth
                                        ELSE 100
                     /\ d.canvasHeight = IF m.canvasHeight # 0 THEN m.canvasHeight
                                         ELSE 100
                     /\ DOMAIN d \cap {"pausedAt", "resumedAt", "resetAt",
                                       "pixelsCleared"} = {} ]_vars

\* C10, the case it is about: a start without sizes has replaced the record
\* of a paused session, and one has replaced a record with pixelsCleared
C10_StartedOverPaused ==
    \E s \in DOMAIN spc :
        /\ shist[s].started /\ sev[s].canvasWidth = 0
        /\ "pausedAt" \in DOMAIN shist[s].prev

(***************************************************************************)
(* SpecReset: resets of a canvas of P pixel documents, with pause and      *)
(* resume commands and possibly a second reset handled at the same time;   *)
(* no pixel is placed.                                                     *)
(***************************************************************************)
NumResetProcs == 2
ResetProcs == 1..NumResetProcs
ResetCounts == {0, 1, 499, 500, 501, 1000, 1200}

\* the pixel documents of the first n cells of a canvas of width w
FilledCanvas(n, w) ==
    [c \in {<<k \div w, k % w>> : k \in 0..(n - 1)} |->
        [x |-> c[1], y |-> c[2], color |-> Red, userId |-> "U1",
         username |-> "u1", source |-> "web", updatedAt |-> 0]]

InitReset ==
    /\ now = 1
    /\ faultBudget = 0
    /\ session = ActiveSession(DefaultSessionSize, DefaultSessionSize, 0)
    /\ archives = Empty
    /\ \E n \in ResetCounts : pixels = FilledCanvas(n, DefaultSessionSize)
    /\ users = Empty
    /\ rateLimits = Empty
    /\ published = {}
    /\ inputs = {}
    /\ pc = Empty /\ ev = Empty /\ loc = Empty /\ result = Empty
    /\ hist = NoHist({})
    /\ SessionWorker(ResetProcs,
                     {Command("reset", 0, 0, TRUE), Command("pause", 0, 0, FALSE),
                      Command("resume", 0, 0, FALSE)})
    /\ NoSnapshotWorker

NextReset ==
    \/ \E s \in ResetProcs : handler(s, SessionDeliveries)
    \/ \E s \in ResetProcs : pauseSession(s)
    \/ \E s \in ResetProcs : resumeSession(s)
    \/ \E s \in ResetProcs : resetCanvasGet(s)
    \/ \E s \in ResetProcs : resetCanvasCommit(s)
    \/ \E s \in ResetProcs : resetCanvasUpdate(s)

SpecReset == InitReset /\ [][NextReset]_vars

\* the reset of invocation s completes: with p0 pixel documents at its
\* start it has committed ceil(p0 / batchSize) delete batches, no pixel
\* document is left and pixelsCleared = p0
ResetCompletes(s) ==
    (Steps(s, "reset_update") /\ spc'[s] = "acked") =>
        /\ shist[s].batches = (shist[s].p0 + batchSize - 1) \div batchSize
        /\ pixels' = Empty
        /\ session'["current"].pixelsCleared = shist[s].p0

\* C4: a reset run to completion on P pixel documents, with batches of 500
\* and no concurrent placement, commits exactly ceil(P / 500) delete
\* batches, leaves no pixel document and writes pixelsCleared = P.
C4_ResetBatches == [][ \A s \in DOMAIN spc : ResetCompletes(s) ]_vars

\* C4 for a reset during which no other reset runs
C4_ResetBatchesAlone ==
    [][ \A s \in DOMAIN spc : ~shist[s].overlap => ResetCompletes(s) ]_vars

\* C4, the case it is about: a reset of 1200 pixel documents has completed
\* alone, in 3 batches
C4_ResetOf1200 ==
    \E s \in DOMAIN spc :
        /\ sev[s].action = "reset" /\ spc[s] = "acked" /\ ~shist[s].overlap
        /\ shist[s].p0 = 1200 /\ shist[s].batches = 3

(***************************************************************************)
(* SpecValidate: placements of every kind of input, valid or not, on a     *)
(* store with no session, an active bounded session, a paused session or   *)
(* an active session without sizes; user U1 has used up the window.        *)
(***************************************************************************)
NumValidateProcs == 2
ValidateProcs == 1..NumValidateProcs
NotHex == <<"G", "G", "0", "0", "0", "0">>
ValidateXs == {-1, 5, 150, 100001}
ValidateYs == {5, 150}

\* an active session started without sizes by a worker that stores none
UnboundedSession(t) ==
    "current" :> [status |-> "active", startedAt |-> t, createdBy |-> "A1",
                  createdByUsername |-> "admin"]

InitValidate ==
    /\ now = 0
    /\ faultBudget = 0
    /\ session \in {Empty, ActiveSession(DefaultSessionSize, DefaultSessionSize, 0),
                    PausedSession(DefaultSessionSize, DefaultSessionSize, 0),
                    UnboundedSession(0)}
    /\ archives = Empty
    /\ pixels = Empty
    /\ users = Empty
    /\ rateLimits = CounterAfter("U1", rateLimitMax)
    /\ published = {}
    /\ inputs = {[x |-> x, y |-> y, color |-> c, userId |-> u, username |-> "u",
                  source |-> "discord"] :
                    x \in ValidateXs, y \in ValidateYs, c \in {Red, NotHex},
                    u \in {"U1", "U2"}}
    /\ pc = [p \in ValidateProcs |-> "start"]
    /\ ev = [p \in ValidateProcs |-> NoEvent]
    /\ loc = [p \in ValidateProcs |-> NoTx]
    /\ result = [p \in ValidateProcs |-> ""]
    /\ hist = [NoHist(ValidateProcs) EXCEPT !.base = rateLimitMax]
    /\ NoSessionWorker
    /\ NoSnapshotWorker

NextValidate ==
    \/ \E p \in ValidateProcs : HandleStart(p)
    \/ \E p \in ValidateProcs : RLRead(p)
    \/ \E p \in ValidateProcs : RLCommit(p)
    \/ \E p \in ValidateProcs : UPRead(p)
    \/ \E p \in ValidateProcs : UPCommit(p)
    \/ \E p \in ValidateProcs : Publish(p)

SpecValidate == InitValidate /\ [][NextValidate]_vars

\* the first of the checks color, session, bounds, magnitude that event e
\* fails on the sessions collection sess; "" when it passes the four
FirstFailingCheck(e, sess) ==
    IF ~hexColorRegex(e.color) THEN "InvalidColor"
    ELSE IF StateOf(sess) # "active" THEN "SessionInactive"
    ELSE LET d == sess["current"]
             bounded == "canvasWidth" \in DOMAIN d /\ "canvasHeight" \in DOMAIN d
         IN  IF bounded /\ ~(0 <= e.x /\ e.x < d.canvasWidth /\
                              0 <= e.y /\ e.y < d.canvasHeight)
             THEN "OutOfBounds"
             ELSE IF Abs(e.x) > 100000 \/ Abs(e.y) > 100000
             THEN "CoordinateTooLarge"
             ELSE ""

\* the rejection a result stands for
Rejection(r) ==
    CASE r = "Invalid color format" -> "InvalidColor"
      [] r \in {"No active session", "Session is paused", "Session is "} ->
             "SessionInactive"
      [] r = "Coordinates out of bounds" -> "OutOfBounds"
      [] r = "Coordinates too large" -> "CoordinateTooLarge"
      [] r = "Rate limit exceeded" -> "RateLimited"
      [] OTHER -> ""

\* C7: the checks are made in the order color, session, bounds, magnitude,
\* rate limit: a placement is rejected with the reason of the first check
\* it fails, goes on to the store only when it fails none of the first
\* four, and is placed only when the limiter allowed it too.
C7_FirstFailingCheck ==
    \A p \in DOMAIN pc :
        pc[p] # "start" =>
            LET f == FirstFailingCheck(ev[p], session)
            IN  /\ f # "" => pc[p] = "done" /\ Rejection(result[p]) = f
                /\ (f = "" /\ pc[p] = "done") =>
                       IF loc[p].allowed
                       THEN result[p] \in {"Pixel placed", "Failed to place pixel"}
                       ELSE Rejection(result[p]) = "RateLimited"
                /\ Committed(p) => f = "" /\ loc[p].allowed

\* C7, the case it is about: an invalid color on a paused session has been
\* rejected as invalid color
C7_InvalidColorOnPaused ==
    \E p \in DOMAIN pc :
        /\ pc[p] = "done" /\ ev[p].color = NotHex
        /\ StateOf(session) = "paused"
        /\ result[p] = "Invalid color format"

(***************************************************************************)
(* SpecSnapshot: one snapshot run over the pixels that earlier sessions    *)
(* have left in the store, on a 5000 x 5000 session, on a later and        *)
(* smaller session, or after the session has ended.                        *)
(***************************************************************************)
CPUs == {1, 4, 64}
SnapshotCells == {<<3, 3>>, <<9, 9>>, <<2048, 5>>, <<3000, 3000>>, <<4999, 4999>>}
BigCanvas == 5000

InitSnapshot ==
    /\ now = 1
    /\ faultBudget \in {0, MaxFaults}
    /\ session \in {Empty, ActiveSession(BigCanvas, BigCanvas, 0),
                    ActiveSession(DefaultSessionSize, DefaultSessionSize, 0)}
    /\ archives = Empty
    /\ \E cells \in SUBSET SnapshotCells :
          pixels = [c \in cells |->
                       [x |-> c[1], y |-> c[2], color |-> Red, userId |-> "U1",
                        username |-> "u1", source |-> "web", updatedAt |-> 0]]
    /\ users = Empty
    /\ rateLimits = Empty
    /\ published = {}
    /\ inputs = {}
    /\ pc = Empty /\ ev = Empty /\ loc = Empty /\ result = Empty
    /\ hist = NoHist({})
    /\ NoSessionWorker
    /\ snap = [NoSnap EXCEPT !.req = [channelId |-> "C1", token |-> TRUE]]
    /\ tiles = Empty
    /\ bucket = Empty
    /\ deadLetter = {}

NextSnapshot ==
    \/ SnapshotStart
    \/ SnapshotGetPixels(CPUs)
    \/ \E k \in DOMAIN tiles : TileAcquire(k)
    \/ \E k \in DOMAIN tiles : TileFinish(k)
    \/ ThumbAcquire
    \/ ThumbFinish
    \/ SnapshotManifest

SpecSnapshot == InitSnapshot /\ [][NextSnapshot]_vars

\* the run has returned and every upload of it succeeded
SnapshotComplete == snap.pc = "returned" /\ snap.ret = "nil" /\ snap.failed = 0

\* the tile indices the manifest lists
ManifestTiles == {<<snap.manifest.tiles[i].x, snap.manifest.tiles[i].y>> :
                     i \in 1..Len(snap.manifest.tiles)}

\* the tile indices a pixel can have
TileIndices == (-1..3) \X (-1..3)

\* the pixel document d lies inside the canvas of the run
InCanvas(d) == d.x >= 0 /\ d.x < snap.canvasW /\ d.y >= 0 /\ d.y < snap.canvasH

\* the live pixels with tile index t (floor of x / T, floor of y / T)
LiveIn(t) == {c \in DOMAIN pixels : pixels[c].x \div tileSize = t[1]
                                     /\ pixels[c].y \div tileSize = t[2]}

\* the tile objects of the run in which the cell of coordinate c is painted
RenderedIn(c) ==
    {p \in DOMAIN bucket :
        /\ p[1] = snap.timestamp /\ p[2] = "tile"
        /\ <<c[1] - p[3] * tileSize, c[2] - p[4] * tileSize>>
               \in DOMAIN bucket[p].cells}

\* C5: in the manifest of a run whose uploads all succeeded, tile (tx, ty)
\* is listed if and only if at least one live pixel has floor(x / 2048) = tx
\* and floor(y / 2048) = ty, and each pixel is rendered only into that tile.
C5_TileIffLivePixel ==
    SnapshotComplete =>
        /\ \A t \in TileIndices : t \in ManifestTiles <=> LiveIn(t) # {}
        /\ \A c \in DOMAIN pixels :
              \A p \in RenderedIn(c) :
                  <<p[3], p[4]>> = <<c[1] \div tileSize, c[2] \div tileSize>>

\* C5 with the pixels the run leaves out: tile (tx, ty) is listed if and
\* only if at least one live pixel inside the canvas of the run has that
\* tile index; each such pixel is rendered into that tile and no pixel
\* into another one.
C5_TileIffLivePixelInCanvas ==
    SnapshotComplete =>
        /\ \A t \in TileIndices :
              t \in ManifestTiles <=> \E c \in LiveIn(t) : InCanvas(pixels[c])
        /\ \A c \in DOMAIN pixels :
              /\ \A p \in RenderedIn(c) :
                    <<p[3], p[4]>> = <<c[1] \div tileSize, c[2] \div tileSize>>
              /\ InCanvas(pixels[c]) => RenderedIn(c) # {}

\* C5, the case it is about: on a 5000 x 5000 canvas with pixels only in
\* the top-left 10 x 10 region the manifest lists tile (0, 0) alone, of 9
C5_TopLeftOnly ==
    /\ SnapshotComplete
    /\ snap.canvasW = BigCanvas /\ snap.canvasH = BigCanvas
    /\ pixels # Empty
    /\ \A c \in DOMAIN pixels : c[1] < 10 /\ c[2] < 10
    /\ ManifestTiles = {<<0, 0>>}
    /\ snap.manifest.tilesX * snap.manifest.tilesY = 9

(***************************************************************************)
(* SpecDelivery: session commands and their redeliveries, on a store with  *)
(* or without a current session; a pause without a session fails on every  *)
(* delivery unless a start is handled in between.                          *)
(***************************************************************************)
NumDeliveryProcs == 2
DeliveryProcs == 1..NumDeliveryProcs
MaxDeliveries == 6

InitDelivery ==
    /\ now = 1
    /\ faultBudget = MaxFaults
    /\ session \in {Empty, ActiveSession(DefaultSessionSize, DefaultSessionSize, 0)}
    /\ archives = Empty
    /\ pixels = Empty
    /\ users = Empty
    /\ rateLimits = Empty
    /\ published = {}
    /\ inputs = {}
    /\ pc = Empty /\ ev = Empty /\ loc = Empty /\ result = Empty
    /\ hist = NoHist({})
    /\ SessionWorker(DeliveryProcs,
                     {Command("start", 0, 0, TRUE), Command("pause", 0, 0, TRUE),
                      Command("resume", 0, 0, TRUE)})
    /\ NoSnapshotWorker

NextDelivery ==
    \/ \E s \in DeliveryProcs : handler(s, MaxDeliveries)
    \/ \E s \in DeliveryProcs : startSession(s)
    \/ \E s \in DeliveryProcs : pauseSession(s)
    \/ \E s \in DeliveryProcs : resumeSession(s)

SpecDelivery == InitDelivery /\ [][NextDelivery]_vars

\* the outcomes (success or not) of the deliveries of the command of s that
\* have returned; every command of SpecDelivery carries a reply token, so
\* each delivery leaves its outcome in replies
Outcomes(s) == replies[s]

\* C6: an event whose handler fails on every attempt is delivered at most
\* maxDeliveryAttempts = 5 times and is then on the dead-letter topic; an
\* event whose handler has returned success is not delivered again and is
\* never on the dead-letter topic.
C6_DeadLetterAfterMaxAttempts ==
    \A s \in DOMAIN spc :
        /\ sloc[s].attempts <= maxDeliveryAttempts
        /\ ( /\ spc[s] = "nacked"
             /\ Len(Outcomes(s)) = maxDeliveryAttempts
             /\ \A i \in 1..Len(Outcomes(s)) : ~Outcomes(s)[i] )
           => sev[s] \in deadLetter
        /\ \A i \in 1..Len(Outcomes(s)) :
              Outcomes(s)[i] => /\ i = Len(Outcomes(s))
                                /\ spc[s] = "acked"
                                /\ sev[s] \notin deadLetter

(***************************************************************************)
(* Claims about end, checked under SpecSession.                            *)
(***************************************************************************)
\* archive document a is the archive of session document d: the fields of
\* d, with status ended and endedAt set
ArchiveOf(a, d) ==
    /\ "endedAt" \in DOMAIN a
    /\ a = Merge(d, [status |-> "ended", endedAt |-> a.endedAt])

\* C11: after a successful end of an existing current session no current
\* record exists and an archive record has the fields of the former current
\* record except status ended and endedAt set; the archive is written
\* before the delete, so in no step is the current record deleted without
\* its archive record existing.
C11_ArchivedBeforeDelete ==
    [][ /\ \A s \in DOMAIN spc :
              (Steps(s, "end_delete") /\ spc'[s] = "acked") =>
                  "current" \notin DOMAIN session'
        /\ ("current" \in DOMAIN session /\ "current" \notin DOMAIN session') =>
              \E a \in DOMAIN archives' :
                  ArchiveOf(archives'[a], session["current"]) ]_vars

\* C12: an end that finds no current record returns success and writes
\* nothing (no archive is created, no record is deleted); an end delivered
\* after another end has completed finds no record and creates no second
\* archive.
C12_EndWithoutSession ==
    [][ \A q \in DOMAIN spc :
          Steps(q, "end_get") =>
            /\ "current" \notin DOMAIN session =>
                  /\ spc'[q] = "acked" /\ sres'[q] = "success"
                  /\ UNCHANGED <<session, archives, pixels>>
            /\ (\E s \in DOMAIN spc \ {q} :
                    /\ sev[s].action = "end" /\ spc[s] = "acked"
                    /\ \A r \in DOMAIN spc \ {q, s} : spc[r] \in {"queued", "acked"}
                                                       /\ sev[r].action \in {"", "end"})
                  => /\ "current" \notin DOMAIN session
                     /\ archives' = archives ]_vars

\* an end archived the session and completed, then a second end found no
\* record and completed: one archive
C12_DuplicateEnd ==
    \E s, q \in DOMAIN spc :
        /\ sev[s].action = "end" /\ sev[q].action = "end"
        /\ spc[s] = "acked" /\ spc[q] = "acked" /\ sres[q] = "success"
        /\ sloc[s].data # Empty /\ sloc[q].data = Empty
        /\ Cardinality(DOMAIN archives) = 1
        /\ "current" \notin DOMAIN session

(***************************************************************************)
(* SpecEnd: three session commands out of start, pause, resume and end     *)
(* handled concurrently on an active session, while time passes.           *)
(***************************************************************************)
NumEndProcs == 3
EndProcs == 1..NumEndProcs

InitEnd ==
    /\ now = 1
    /\ faultBudget = 0
    /\ session = ActiveSession(50, 50, 0)
    /\ archives = Empty
    /\ pixels = Empty
    /\ users = Empty
    /\ rateLimits = Empty
    /\ published = {}
    /\ inputs = {}
    /\ pc = Empty /\ ev = Empty /\ loc = Empty /\ result = Empty
    /\ hist = NoHist({})
    /\ SessionWorker(EndProcs,
                     {Command("start", 10, 10, TRUE), Command("pause", 0, 0, TRUE),
                      Command("resume", 0, 0, TRUE), Command("end", 0, 0, TRUE)})
    /\ NoSnapshotWorker

NextEnd ==
    \/ \E s \in EndProcs : handler(s, SessionDeliveries)
    \/ \E s \in EndProcs : startSession(s)
    \/ \E s \in EndProcs : pauseSession(s)
    \/ \E s \in EndProcs : resumeSession(s)
    \/ \E s \in EndProcs : endSessionGet(s)
    \/ \E s \in EndProcs : endSessionArchive(s)
    \/ \E s \in EndProcs : endSessionDelete(s)
    \/ Tick(1, MaxTime)

SpecEnd == InitEnd /\ [][NextEnd]_vars

\* C13: in every reachable state there is at most one current session
\* record and its status is active or paused; status ended occurs only in
\* archive records; and no step modifies or overwrites an archive record
\* that exists.
C13_CurrentAndArchives ==
    /\ [](/\ DOMAIN session \subseteq {"current"}
          /\ \A k \in DOMAIN session : session[k].status \in {"active", "paused"}
          /\ \A a \in DOMAIN archives : archives[a].status = "ended")
    /\ [][\A a \in DOMAIN archives :
             a \in DOMAIN archives' /\ archives'[a] = archives[a]]_vars

(***************************************************************************)
(* Claims about the failures of the pixel worker.                          *)
(***************************************************************************)
\* C14: checkRateLimit returns allowed without a committed write of the
\* counter only when the counter store itself failed; a transaction that
\* was aborted by concurrent placements of the same user is retried and
\* does not by itself make checkRateLimit return allowed without
\* incrementing.  Checked under SpecRate, where the store never fails.
C14_FailOpenOnlyOnStoreFailure ==
    \A p \in DOMAIN pc :
        (Allowed(p) /\ hist.writes[p] = 0) => hist.rlFault

\* invocation p has returned: the event is acknowledged, or the handler
\* failed and the event is delivered again
Returned(p) == pc[p] = "done"
Acknowledged(p) == Returned(p) /\ handleCloudEventReturn(result[p]) = "nil"
Redelivered(p) == Returned(p) /\ handleCloudEventReturn(result[p]) = "error"

\* C15: when the transaction that writes the pixel and the user statistics
\* fails (its retries are exhausted or the store is unavailable), the
\* handler returns a failure, so that the event is delivered again; it
\* does not acknowledge the event.
C15_CommitFailureIsRetryable ==
    \A p \in DOMAIN pc :
        (Returned(p) /\ result[p] = "Failed to place pixel") =>
            Redelivered(p) /\ ~Acknowledged(p)

TerminalRejections ==
    {"InvalidColor", "SessionInactive", "OutOfBounds", "CoordinateTooLarge",
     "RateLimited"}

DupProcs == {1, 2}
DupInitCounts == {0, 1, 18, 19}
DupEvent == [x |-> 5, y |-> 5, color |-> Red, userId |-> "U1",
             username |-> "u1", source |-> "discord"]

InitDuplicate ==
    /\ now = 0
    /\ faultBudget = 0
    /\ session = ActiveSession(DefaultSessionSize, DefaultSessionSize, 0)
    /\ archives = Empty
    /\ published = {}
    /\ inputs = {DupEvent}
    /\ pixels \in {Empty,
                   pixelID(5, 5) :>
                      [x |-> 5, y |-> 5, color |-> Green, userId |-> "U0",
                       username |-> "u0", source |-> "web", updatedAt |-> 0]}
    /\ \E c0 \in DupInitCounts :
          /\ rateLimits = CounterAfter("U1", c0)
          /\ users = IF c0 = 0 THEN Empty
                     ELSE "U1" :> [id |-> "U1", username |-> "u1", lastPixelAt |-> 0,
                                   pixelCount |-> c0, createdAt |-> 0, ver |-> c0]
          /\ hist = [NoHist(DupProcs) EXCEPT !.base = c0]
    /\ pc = [p \in DupProcs |-> "start"]
    /\ ev = [p \in DupProcs |-> NoEvent]
    /\ loc = [p \in DupProcs |-> NoTx]
    /\ result = [p \in DupProcs |-> ""]
    /\ NoSessionWorker
    /\ NoSnapshotWorker

NextDuplicate ==
    \/ \E p \in DupProcs : HandleStart(p)
    \/ \E p \in DupProcs : RLRead(p)
    \/ \E p \in DupProcs : RLCommit(p)
    \/ \E p \in DupProcs : UPRead(p)
    \/ \E p \in DupProcs : UPCommit(p)
    \/ \E p \in DupProcs : Publish(p)
    \/ Tick(1, MaxTime)

SpecDuplicate == InitDuplicate /\ [][NextDuplicate]_vars

\* the fields of the pixel document that a placement of e determines
SameAsPlaced(d, e) ==
    /\ d.x = e.x /\ d.y = e.y /\ d.color = e.color
    /\ d.userId = e.userId /\ d.username = e.username /\ d.source = e.source

\* C17: once the first delivery of a placement has placed the pixel, the
\* pixel document has the color, owner and source of the event, and it has
\* the same ones after the second delivery has placed it too; the rate
\* counter and the pixelCount of the user are then each two higher than
\* before the deliveries.
C17_DuplicateDelivery ==
    LET placed == {p \in DOMAIN pc : Returned(p) /\ result[p] = "Pixel placed"}
        c == pixelID(DupEvent.x, DupEvent.y)
        r == rateLimitId(DupEvent.userId, 0)
    IN  /\ placed # {} => c \in DOMAIN pixels /\ SameAsPlaced(pixels[c], DupEvent)
        /\ placed = DOMAIN pc =>
               /\ rateLimits[r].count = hist.base + 2
               /\ users[DupEvent.userId].pixelCount = hist.base + 2

\* both deliveries have placed the pixel, for a user who placed before, the
\* last one after time has passed
C17_PlacedTwice ==
    /\ \A p \in DOMAIN pc : Returned(p) /\ result[p] = "Pixel placed"
    /\ hist.base > 0
    /\ pixels[pixelID(DupEvent.x, DupEvent.y)].updatedAt > users[DupEvent.userId].createdAt

(***************************************************************************)
(* SpecReentrant: one reset command on a canvas of P pixel documents,      *)
(* with store calls that fail; a reset that failed is delivered again.     *)
(* The handler runs each invocation to its return and the trigger          *)
(* delivers a failed command again, hence the weak fairness of the steps.  *)
(***************************************************************************)
ReentrantProcs == {1}
ReentrantCounts == {1, 501, 1000, 1200}

InitReentrant ==
    /\ now = 1
    /\ faultBudget = MaxFaults
    /\ session \in {ActiveSession(DefaultSessionSize, DefaultSessionSize, 0),
                    PausedSession(DefaultSessionSize, DefaultSessionSize, 1)}
    /\ archives = Empty
    /\ \E n \in ReentrantCounts : pixels = FilledCanvas(n, DefaultSessionSize)
    /\ users = Empty
    /\ rateLimits = Empty
    /\ published = {}
    /\ inputs = {}
    /\ pc = Empty /\ ev = Empty /\ loc = Empty /\ result = Empty
    /\ hist = NoHist({})
    /\ SessionWorker(ReentrantProcs, {Command("reset", 0, 0, TRUE)})
    /\ NoSnapshotWorker

NextReentrant ==
    \/ \E s \in ReentrantProcs : handler(s, SessionDeliveries)
    \/ \E s \in ReentrantProcs : resetCanvasGet(s)
    \/ \E s \in ReentrantProcs : resetCanvasCommit(s)
    \/ \E s \in ReentrantProcs : resetCanvasUpdate(s)
    \/ Tick(1, MaxTime)

SpecReentrant == InitReentrant /\ [][NextReentrant]_vars /\ WF_vars(NextReentrant)

\* the reset of s stopped on a failure before it had committed the
\* ceil(P / batchSize) batches of the P pixel documents it started on
StoppedEarly(s) ==
    /\ spc[s] = "nacked"
    /\ shist[s].batches < (shist[s].p0 + batchSize - 1) \div batchSize

\* C18: a reset that stopped after committing fewer than ceil(P / B)
\* batches and is invoked again, with no concurrent placement, terminates
\* with no pixel document left and the session active with resetAt set.
C18_ResetReentrant ==
    \A s \in ReentrantProcs :
        StoppedEarly(s) ~>
            ( /\ spc[s] = "acked" /\ sres[s] = "success"
              /\ pixels = Empty
              /\ "current" \in DOMAIN session
              /\ session["current"].status = "active"
              /\ "resetAt" \in DOMAIN session["current"] )

\* a reset of 1200 pixel documents on a paused session stopped after one
\* batch, and its second invocation has completed on the 700 left
C18_SecondInvocationDone ==
    \E s \in DOMAIN spc :
        /\ spc[s] = "acked" /\ sloc[s].attempts > 1
        /\ shist[s].p0 = 1200 - batchSize
        /\ pixels = Empty
        /\ session["current"].status = "active"
        /\ "pausedAt" \in DOMAIN session["current"]

(***************************************************************************)
(* Claims about the uploads of a snapshot run, checked under SpecSnapshot. *)
(***************************************************************************)
\* the object path of tile k of the run, and of its manifest
TilePath(k) == <<snap.timestamp, "tile", k[1], k[2]>>
ManifestPath == <<snap.timestamp, "manifest">>

\* the tiles of the run whose job has finished with the tile uploaded, and
\* with the upload failed
UploadedTiles == {k \in DOMAIN tiles : tiles[k] = "done" /\ TilePath(k) \in DOMAIN bucket}
FailedTiles == {k \in DOMAIN tiles : tiles[k] = "done" /\ TilePath(k) \notin DOMAIN bucket}

\* C19: when the upload of a tile fails (and no other upload of the run
\* does), the run still completes: it can always go on, the handler
\* returns nil, the manifest is persisted, the failed tile is absent from
\* it and every tile that was uploaded is present in it.
C19_TileUploadFailure ==
    (FailedTiles # {} /\ snap.failed = Cardinality(FailedTiles)) =>
        /\ snap.pc # "returned" => ENABLED NextSnapshot
        /\ snap.pc = "returned" =>
              /\ snap.ret = "nil"
              /\ ManifestPath \in DOMAIN bucket
              /\ bucket[ManifestPath] = snap.manifest
              /\ ManifestTiles \cap FailedTiles = {}
              /\ UploadedTiles \subseteq ManifestTiles

\* a run has returned after the upload of one tile failed and the upload
\* of another tile succeeded
C19_OneTileFailed ==
    /\ snap.pc = "returned"
    /\ Cardinality(FailedTiles) = 1 /\ snap.failed = 1
    /\ UploadedTiles # {}

\* C20: the manifest is built only after every tile job and the thumbnail
\* job have finished, and under every interleaving of the jobs it lists
\* each tile that was uploaded exactly once and no tile whose upload
\* failed.
C20_ManifestAfterJobs ==
    /\ [][ (snap.pc = "wait" /\ snap'.pc = "returned" /\ snap'.ret = "nil") =>
              /\ snap.thumb \notin {"waiting", "running"}
              /\ \A k \in DOMAIN tiles : tiles[k] \notin {"waiting", "running"}
              /\ snap'.manifest.tiles = snap.results ]_vars
    /\ []( (snap.pc = "returned" /\ snap.ret = "nil") =>
              /\ \A k \in UploadedTiles :
                    Cardinality({i \in 1..Len(snap.manifest.tiles) :
                                    <<snap.manifest.tiles[i].x,
                                      snap.manifest.tiles[i].y>> = k}) = 1
              /\ ManifestTiles \subseteq UploadedTiles
              /\ \A i \in 1..Len(snap.manifest.tiles) :
                    snap.manifest.tiles[i].url
                        = TilePath(<<snap.manifest.tiles[i].x, snap.manifest.tiles[i].y>>) )

\* a run has returned with two tiles uploaded and the upload of a third
\* one failed
C20_TwoUploadedOneFailed ==
    /\ snap.pc = "returned" /\ snap.ret = "nil"
    /\ Cardinality(UploadedTiles) >= 2
    /\ FailedTiles # {}

\* the jobs of the run that hold a slot of the pool: they are generating or
\* uploading
JobsInPool ==
    Cardinality({k \in DOMAIN tiles : tiles[k] = "running"})
        + (IF snap.thumb = "running" THEN 1 ELSE 0)

\* C21: during a run, at every moment the number of tile and thumbnail
\* jobs that are generating or uploading is at most maxWorkers, and
\* 4 <= maxWorkers <= 32, whatever the number of tiles.
C21_PoolBound ==
    snap.pc = "wait" =>
        /\ 4 <= snap.maxWorkers /\ snap.maxWorkers <= 32
        /\ JobsInPool <= snap.maxWorkers

\* the pool is full and a job waits for a slot
C21_PoolFull ==
    /\ snap.pc = "wait"
    /\ JobsInPool = snap.maxWorkers
    /\ \/ snap.thumb = "waiting"
       \/ \E k \in DOMAIN tiles : tiles[k] = "waiting"

\* C22: the pixelCount of a user never decreases: after every step, also
\* of a placement in whose transaction the read of the user document
\* returned an error, the stored pixelCount of each user is at least the
\* one stored before the step.
C22_PixelCountMonotonic ==
    [][ \A u \in DOMAIN users :
          /\ u \in DOMAIN users'
          /\ users'[u].pixelCount >= users[u].pixelCount ]_vars

(***************************************************************************)
(* SpecFrame: two session commands, one placement and one snapshot run,    *)
(* handled concurrently on an active session with one pixel.               *)
(***************************************************************************)
FrameSessionProcs == {1, 2}
FramePlaceProcs == {1}

InitFrame ==
    /\ now = 1
    /\ faultBudget = 0
    /\ session = ActiveSession(50, 50, 0)
    /\ archives = Empty
    /\ pixels = OnePixel(5, 5, "U1")
    /\ users = Empty
    /\ rateLimits = Empty
    /\ published = {}
    /\ inputs = {[x |-> x, y |-> 6, color |-> c, userId |-> "U2", username |-> "u2",
                  source |-> "discord"] : x \in {5, 150}, c \in {Green, NotHex}}
    /\ pc = [p \in FramePlaceProcs |-> "start"]
    /\ ev = [p \in FramePlaceProcs |-> NoEvent]
    /\ loc = [p \in FramePlaceProcs |-> NoTx]
    /\ result = [p \in FramePlaceProcs |-> ""]
    /\ hist = NoHist(FramePlaceProcs)
    /\ SessionWorker(FrameSessionProcs,
                     {Command("start", 0, 0, TRUE), Command("pause", 0, 0, TRUE),
                      Command("resume", 0, 0, TRUE), Command("reset", 0, 0, TRUE),
                      Command("end", 0, 0, TRUE), Command("status", 0, 0, TRUE)})
    /\ snap = [NoSnap EXCEPT !.req = [channelId |-> "C1", token |-> TRUE]]
    /\ tiles = Empty
    /\ bucket = Empty
    /\ deadLetter = {}

NextFrame ==
    \/ \E p \in FramePlaceProcs : HandleStart(p)
    \/ \E p \in FramePlaceProcs : RLRead(p)
    \/ \E p \in FramePlaceProcs : RLCommit(p)
    \/ \E p \in FramePlaceProcs : UPRead(p)
    \/ \E p \in FramePlaceProcs : UPCommit(p)
    \/ \E p \in FramePlaceProcs : Publish(p)
    \/ \E s \in FrameSessionProcs : handler(s, SessionDeliveries)
    \/ \E s \in FrameSessionProcs : startSession(s)
    \/ \E s \in FrameSessionProcs : pauseSession(s)
    \/ \E s \in FrameSessionProcs : resumeSession(s)
    \/ \E s \in FrameSessionProcs : resetCanvasGet(s)
    \/ \E s \in FrameSessionProcs : resetCanvasCommit(s)
    \/ \E s \in FrameSessionProcs : resetCanvasUpdate(s)
    \/ \E s \in FrameSessionProcs : endSessionGet(s)
    \/ \E s \in FrameSessionProcs : endSessionArchive(s)
    \/ \E s \in FrameSessionProcs : endSessionDelete(s)
    \/ \E s \in FrameSessionProcs : getCanvasStatusGet(s)
    \/ \E s \in FrameSessionProcs : getCanvasStatusCount(s)
    \/ SnapshotStart
    \/ SnapshotGetPixels({1})
    \/ \E k \in DOMAIN tiles : TileAcquire(k)
    \/ \E k \in DOMAIN tiles : TileFinish(k)
    \/ ThumbAcquire
    \/ ThumbFinish
    \/ SnapshotManifest

SpecFrame == InitFrame /\ [][NextFrame]_vars

\* C23: pixel documents are deleted only by reset: a step that deletes one
\* is the commit of a delete batch of a reset command, and a step that
\* creates or modifies one is the commit of a placement that passed the
\* checks; no step of start, pause, resume, end, status, a rejected
\* placement or the snapshot run changes the pixel documents.
C23_OnlyResetDeletes ==
    [][ /\ (\E c \in DOMAIN pixels : c \notin DOMAIN pixels') =>
              \E s \in DOMAIN spc :
                  sev[s].action = "reset" /\ Steps(s, "reset_commit")
        /\ (\E c \in DOMAIN pixels' :
                 c \notin DOMAIN pixels \/ pixels'[c] # pixels[c]) =>
              \E p \in DOMAIN pc :
                  /\ pc[p] = "up_commit" /\ pc'[p] = "publish"
                  /\ FirstFailingCheck(ev[p], ActiveSession(50, 50, 0)) = "" ]_vars

\* an end has archived the session and a start has then created a new
\* one, and the pixel of the ended session is still stored
C23_PixelSurvivesEndStart ==
    \E s, q \in DOMAIN spc :
        /\ sev[s].action = "end" /\ spc[s] = "acked" /\ sloc[s].data # Empty
        /\ sev[q].action = "start" /\ spc[q] = "acked"
        /\ shist[q].started /\ shist[q].prev = Empty
        /\ "current" \in DOMAIN session
        /\ pixelID(5, 5) \in DOMAIN pixels
        /\ pixels[pixelID(5, 5)] = OnePixel(5, 5, "U1")[pixelID(5, 5)]
        /\ snap.pc = "returned"
        /\ \E p \in DOMAIN pc : Returned(p) /\ Rejection(result[p]) # ""

(***************************************************************************)
(* SpecWindow: placements of one user around the boundary between the      *)
(* windows 0 and 1: the user has placed c0 pixels in the last second of    *)
(* window 0, and time passes into window 1.                                *)
(***************************************************************************)
WindowProcs == {1, 2}
WindowInitCounts == {19, 20}

InitWindow ==
    /\ now = rateLimitWindow - 1
    /\ faultBudget = 0
    /\ session = ActiveSession(DefaultSessionSize, DefaultSessionSize, 0)
    /\ archives = Empty
    /\ pixels = Empty
    /\ users = Empty
    /\ published = {}
    /\ inputs = {[x |-> 5, y |-> 5, color |-> Red, userId |-> "U1",
                  username |-> "u1", source |-> "web"]}
    /\ \E c0 \in WindowInitCounts :
          /\ rateLimits = CounterAfter("U1", c0)
          /\ hist = [NoHist(WindowProcs) EXCEPT !.base = c0]
    /\ pc = [p \in WindowProcs |-> "start"]
    /\ ev = [p \in WindowProcs |-> NoEvent]
    /\ loc = [p \in WindowProcs |-> NoTx]
    /\ result = [p \in WindowProcs |-> ""]
    /\ NoSessionWorker
    /\ NoSnapshotWorker

NextWindow ==
    \/ \E p \in WindowProcs : HandleStart(p)
    \/ \E p \in WindowProcs : RLRead(p)
    \/ \E p \in WindowProcs : RLCommit(p)
    \/ \E p \in WindowProcs : UPRead(p)
    \/ \E p \in WindowProcs : UPCommit(p)
    \/ \E p \in WindowProcs : Publish(p)
    \/ Tick(1, rateLimitWindow + 1)

SpecWindow == InitWindow /\ [][NextWindow]_vars

\* the count stored for U1 in window w
CountOf(w) ==
    IF <<"U1", w>> \in DOMAIN rateLimits THEN rateLimits[<<"U1", w>>].count ELSE 0

\* no failure and no exhausted retry of the counter transaction
CounterStoreSound == ~hist.rlFault /\ ~hist.rlExhausted

ThumbCanvases == {<<100, 100>>, <<800, 800>>, <<1000, 1000>>, <<3000, 3000>>,
                  <<1000, 3000>>, <<3000, 1000>>}

\* the pixel documents at the cells of cs, red at even x and green at odd x
ThumbPixels(cs) ==
    [c \in cs |-> [x |-> c[1], y |-> c[2],
                   color |-> IF c[1] % 2 = 0 THEN Red ELSE Green,
                   userId |-> "U1", username |-> "u1", source |-> "web",
                   updatedAt |-> 0]]

InitThumbnail ==
    /\ now = 1
    /\ faultBudget = 0
    /\ archives = Empty
    /\ \E wh \in ThumbCanvases :
          /\ session = ActiveSession(wh[1], wh[2], 0)
          /\ \E cs \in SUBSET {<<0, 0>>, <<1, 0>>, <<wh[1] - 1, 0>>,
                                <<wh[1] - 1, wh[2] - 1>>, <<wh[1], wh[2]>>} :
                pixels = ThumbPixels(cs)
    /\ users = Empty
    /\ rateLimits = Empty
    /\ published = {}
    /\ inputs = {}
    /\ pc = Empty /\ ev = Empty /\ loc = Empty /\ result = Empty
    /\ hist = NoHist({})
    /\ NoSessionWorker
    /\ snap = [NoSnap EXCEPT !.req = [channelId |-> "", token |-> TRUE]]
    /\ tiles = Empty
    /\ bucket = Empty
    /\ deadLetter = {}

NextThumbnail ==
    \/ SnapshotStart
    \/ SnapshotGetPixels({1})
    \/ \E k \in DOMAIN tiles : TileAcquire(k)
    \/ \E k \in DOMAIN tiles : TileFinish(k)
    \/ ThumbAcquire
    \/ ThumbFinish
    \/ SnapshotManifest

SpecThumbnail == InitThumbnail /\ [][NextThumbnail]_vars

\* floor(v * scale) for scale = min(800 / width, 800 / height, 1)
ThumbCoord(v, width, height) ==
    IF width <= thumbnailMaxSize /\ height <= thumbnailMaxSize THEN v
    ELSE IF width >= height THEN (v * thumbnailMaxSize) \div width
    ELSE (v * thumbnailMaxSize) \div height

ThumbnailPath == <<snap.timestamp, "thumbnail">>

\* C25: in the thumbnail of a canvas of size width x height every
\* in-bounds pixel (x, y) is painted at (floor(x * scale),
\* floor(y * scale)) for scale = min(800 / width, 800 / height, 1), that
\* position lies inside the thumbnail image, and of the pixels of one
\* thumbnail cell the last one processed gives the cell its color.
C25_ThumbnailCells ==
    ThumbnailPath \in DOMAIN bucket =>
        LET img == bucket[ThumbnailPath]
            w == snap.canvasW
            h == snap.canvasH
            pos(p) == <<ThumbCoord(p.x, w, h), ThumbCoord(p.y, w, h)>>
            inside == {p \in snap.pixels : p.x >= 0 /\ p.x < w /\ p.y >= 0 /\ p.y < h}
        IN  \A p \in inside :
              /\ pos(p)[1] < img.w /\ pos(p)[2] < img.h
              /\ pos(p) \in DOMAIN img.cells
              /\ \E q \in inside :
                    /\ pos(q) = pos(p)
                    /\ img.cells[pos(p)] = parseColor(q.color)
                    /\ \A r \in inside : pos(r) = pos(p) =>
                          (r.x < q.x \/ (r.x = q.x /\ r.y <= q.y))

\* C26: a handling attempt that ends in a retryable failure sends no
\* message through the reply channel: over the deliveries of a failing
\* command, up to maxDeliveryAttempts, the user receives no failure
\* message before the attempts are exhausted.  Checked under SpecDelivery.
C26_NoReplyOnRetryableFailure ==
    /\ [][ \A s \in DOMAIN spc :
              (spc[s] # "nacked" /\ spc'[s] = "nacked") =>
                  replies'[s] = replies[s] ]_vars
    /\ [](\A s \in DOMAIN spc :
              sloc[s].attempts < maxDeliveryAttempts =>
                  \A i \in 1..Len(replies[s]) : replies[s][i])

\* C27: when the upload of the manifest or of the thumbnail fails during a
\* run, the handler returns a failure, so that the request is delivered
\* again, and does not report a completed snapshot; only the failure of
\* the upload of a tile is tolerated.  Checked under SpecSnapshot.
C27_ManifestFailureIsRetryable ==
    ( /\ snap.pc = "returned"
      /\ \/ snap.thumb = "done" /\ ThumbnailPath \notin DOMAIN bucket
         \/ snap.manifest # Empty /\ ManifestPath \notin DOMAIN bucket )
    => /\ snap.ret = "error"
       /\ snap.reply # "Snapshot generated"

(***************************************************************************)
(* Dispatcher (discord-proxy/main.go): a /session interaction is routed to *)
(* the session topic.  An interaction is [admin, action, options]; options *)
(* maps the names of the options after "action" to their JSON values, a    *)
(* number [type |-> "float64", tenths |-> n] (the number n/10), a string   *)
(* [type |-> "string", digits |-> d] (the decimal text of the digits d) or *)
(* [type |-> "bool"].  A field that messageData does not hold is 0 in the  *)
(* command, which is how the worker reads it (metadata.canvasWidth || 100).*)
(***************************************************************************)
MinCanvasDimension == 10
MaxCanvasDimension == 100000

\* strconv.Atoi of a text of decimal digits; the empty text is a syntax error
RECURSIVE Atoi(_)
Atoi(d) ==
    IF Len(d) = 0 THEN [err |-> TRUE, val |-> 0]
    ELSE IF Len(d) = 1 THEN [err |-> FALSE, val |-> d[1]]
    ELSE [err |-> FALSE,
          val |-> 10 * Atoi(SubSeq(d, 1, Len(d) - 1)).val + d[Len(d)]]

\* toInt, lines 323-332: int(val) truncates a float64 toward zero
proxyToInt(v) ==
    CASE v.type = "float64" ->
           [err |-> FALSE,
            val |-> IF v.tenths >= 0 THEN v.tenths \div 10
                    ELSE 0 - ((0 - v.tenths) \div 10)]
      [] v.type = "string" -> Atoi(v.digits)
      [] OTHER -> [err |-> TRUE, val |-> 0]

\* lines 307-313: the value messageData gets for the option name, 0 if none
dimensionOption(interaction, name) ==
    IF interaction.action = "start" /\ name \in DOMAIN interaction.options
    THEN LET r == proxyToInt(interaction.options[name])
         IN  IF ~r.err /\ r.val >= MinCanvasDimension /\ r.val <= MaxCanvasDimension
             THEN r.val ELSE 0
    ELSE 0

\* routeSessionCommand that forwards every explicit dimension it can convert
routeSessionCommandUnfiltered(interaction) ==
    [action |-> interaction.action, userId |-> "A1", username |-> "admin",
     token |-> TRUE,
     canvasWidth |-> IF "width" \in DOMAIN interaction.options
                     THEN proxyToInt(interaction.options["width"]).val ELSE 0,
     canvasHeight |-> IF "height" \in DOMAIN interaction.options
                      THEN proxyToInt(interaction.options["height"]).val ELSE 0]

\* routeSessionCommand, lines 294-316: the messageData it publishes
routeSessionCommand(interaction) ==
    [action |-> interaction.action, userId |-> "A1", username |-> "admin",
     token |-> TRUE,
     canvasWidth |-> dimensionOption(interaction, "width"),
     canvasHeight |-> dimensionOption(interaction, "height")]

\* routeSessionCommand, lines 278-321: an interaction of someone who is not
\* an admin gets a follow-up from the dispatcher and nothing is published
RouteSession ==
    /\ \E i \in {j \in interactions : ~j.routed} :
        /\ interactions' = (interactions \ {i}) \cup {[i EXCEPT !.routed = TRUE]}
        /\ sinputs' = IF i.admin THEN sinputs \cup {routeSessionCommand(i)}
                      ELSE sinputs
    /\ UNCHANGED <<envVars, storeVars, pixVars, hist, snapVars, deadLetter,
                   spc, sev, sloc, sres, replies, shist>>

RouteProcs == {1}

\* the values of a width or height option: numbers below, at, inside and
\* above the range, numbers with a fraction, texts, and a boolean
DimensionValues ==
    {[type |-> "float64", tenths |-> n] :
        n \in {0 - 30, 0, 50, 90, 99, 100, 105, 500, 1000000, 1000009,
               1000010, 2000000}}
    \cup {[type |-> "string", digits |-> d] :
            d \in {<<>>, <<9>>, <<1, 0>>, <<6, 4>>, <<1, 0, 0, 0, 0, 1>>}}
    \cup {[type |-> "bool"]}

Interaction(admin, action, options) ==
    [admin |-> admin, action |-> action, options |-> options, routed |-> FALSE]

\* one /session interaction; start may carry a width, a height, or both
InitRoute ==
    /\ now = 1
    /\ faultBudget = 0
    /\ session = Empty
    /\ archives = Empty
    /\ pixels = Empty
    /\ users = Empty
    /\ rateLimits = Empty
    /\ published = {}
    /\ inputs = {}
    /\ pc = Empty /\ ev = Empty /\ loc = Empty /\ result = Empty
    /\ hist = NoHist({})
    /\ \E admin \in BOOLEAN, action \in {"start", "pause"} :
         \E names \in SUBSET {"width", "height"} :
           \E options \in [names -> DimensionValues] :
             interactions = {Interaction(admin, action, options)}
    /\ sinputs = {}
    /\ spc = [s \in RouteProcs |-> "queued"]
    /\ sev = [s \in RouteProcs |-> NoCommand]
    /\ sloc = [s \in RouteProcs |-> NoSLoc]
    /\ sres = [s \in RouteProcs |-> ""]
    /\ replies = [s \in RouteProcs |-> <<>>]
    /\ shist = [s \in RouteProcs |-> NoSHist]
    /\ NoSnapshotWorker

NextRoute ==
    \/ RouteSession
    \/ \E s \in RouteProcs : handler(s, SessionDeliveries)
    \/ \E s \in RouteProcs : startSession(s)
    \/ \E s \in RouteProcs : pauseSession(s)

SpecRoute == InitRoute /\ [][NextRoute]_vars

\* the explicit dimensions of an interaction: the options that are numbers
ExplicitDimensions(i) ==
    {name \in DOMAIN i.options : ~proxyToInt(i.options[name]).err}

ExplicitValue(i, name) == proxyToInt(i.options[name]).val

SessionField(name) == IF name = "width" THEN "canvasWidth" ELSE "canvasHeight"

Clamp(v, lo, hi) == IF v < lo THEN lo ELSE IF v > hi THEN hi ELSE v

\* C28 as stated: the Session a routed start command created stores every
\* explicit dimension clamped into [10, 100000], a value below 10 as 10 and
\* a value above 100000 as 100000.
C28_ExplicitDimensionClamped ==
    "current" \in DOMAIN session =>
        \A i \in interactions : \A name \in ExplicitDimensions(i) :
            session["current"][SessionField(name)] =
                Clamp(ExplicitValue(i, name), MinCanvasDimension, MaxCanvasDimension)

\* C28: the Session a routed start command created stores an explicit
\* dimension that lies in [10, 100000] as it was given and the default 100
\* in place of an explicit dimension outside of [10, 100000]; both of its
\* dimensions are in [10, 100000], and only the start of an admin creates it.
C28_ExplicitDimensionInRangeOrDefault ==
    "current" \in DOMAIN session =>
        \A i \in interactions :
            /\ i.admin /\ i.routed /\ i.action = "start"
            /\ \A name \in {"width", "height"} :
                 LET stored == session["current"][SessionField(name)]
                 IN  /\ stored >= MinCanvasDimension
                     /\ stored <= MaxCanvasDimension
                     /\ stored =
                          IF /\ name \in ExplicitDimensions(i)
                             /\ ExplicitValue(i, name) >= MinCanvasDimension
                             /\ ExplicitValue(i, name) <= MaxCanvasDimension
                          THEN ExplicitValue(i, name)
                          ELSE DefaultSessionSize

\* a start with the explicit width 5 and the explicit height 200000 created
\* the Session, whose dimensions are 100 by 100
C28_OutOfRangeStoredAsDefault ==
    /\ "current" \in DOMAIN session
    /\ session["current"].canvasWidth = DefaultSessionSize
    /\ session["current"].canvasHeight = DefaultSessionSize
    /\ \E i \in interactions :
         /\ "width" \in ExplicitDimensions(i) /\ ExplicitValue(i, "width") = 5
         /\ "height" \in ExplicitDimensions(i) /\ ExplicitValue(i, "height") = 200000

(***************************************************************************)
(* The session worker without a current Session record: reset commands,   *)
(* with and without an interaction token, over a store of 0, 1 or 501      *)
(* pixel documents.                                                        *)
(***************************************************************************)
NoSessionProcs == {1, 2}
NoSessionCounts == {0, 1, 501}

InitNoSession ==
    /\ now = 1
    /\ faultBudget = 0
    /\ session = Empty
    /\ archives = Empty
    /\ \E n \in NoSessionCounts : pixels = FilledCanvas(n, DefaultSessionSize)
    /\ users = Empty
    /\ rateLimits = Empty
    /\ published = {}
    /\ inputs = {}
    /\ pc = Empty /\ ev = Empty /\ loc = Empty /\ result = Empty
    /\ hist = NoHist({})
    /\ SessionWorker(NoSessionProcs,
                     {Command("reset", 0, 0, TRUE), Command("reset", 0, 0, FALSE)})
    /\ NoSnapshotWorker

NextNoSession ==
    \/ \E s \in NoSessionProcs : handler(s, SessionDeliveries)
    \/ \E s \in NoSessionProcs : resetCanvasGet(s)
    \/ \E s \in NoSessionProcs : resetCanvasCommit(s)
    \/ \E s \in NoSessionProcs : resetCanvasUpdate(s)

SpecNoSession == InitNoSession /\ [][NextNoSession]_vars

\* C29: a reset invoked while no current Session record exists reports
\* failure, deletes no Pixel record (it commits no delete batch and the
\* store holds the pixel documents it held at the start of the reset) and
\* creates no Session record.
C29_ResetWithoutSession ==
    /\ "current" \notin DOMAIN session
    /\ \A s \in NoSessionProcs :
         sev[s].action = "reset" =>
            /\ spc[s] # "acked"
            /\ sres[s] # "success"
            /\ shist[s].batches = 0
            /\ Cardinality(DOMAIN pixels) = shist[s].p0

ValidationRejections ==
    {"InvalidColor", "SessionInactive", "OutOfBounds", "CoordinateTooLarge"}

\* invocation p returns with a rejection of the validation in this step
RejectsByValidation(p) ==
    /\ pc[p] = "start"
    /\ pc'[p] = "done"
    /\ Rejection(result'[p]) \in ValidationRejections

\* C30: a placement rejected by the validation (invalid color, session
\* inactive, out of bounds, coordinate too large) consumes no rate-limit
\* budget and writes nothing: its invocation is the one step that rejects
\* it, which leaves every rate counter, Pixel record and UserStat as it was
\* and publishes no notification; an invocation that has returned with such
\* a rejection has made no write and has not been counted by the limiter.
C30_RejectedWritesNothing ==
    /\ [][\A p \in DOMAIN pc :
            RejectsByValidation(p) =>
                /\ rateLimits' = rateLimits
                /\ pixels' = pixels
                /\ users' = users
                /\ published' = published
                /\ hist' = hist]_vars
    /\ [](\A p \in DOMAIN pc :
            (Returned(p) /\ Rejection(result[p]) \in ValidationRejections) =>
                /\ hist.writes[p] = 0
                /\ ~Allowed(p))

\* the four rejections of the validation have happened, each in some state:
\* here an out-of-bounds placement of U1, whose counter is at the maximum,
\* and an invalid color of U2, who has no counter, have both returned
C30_TwoValidationRejections ==
    \E p, q \in DOMAIN pc :
        /\ Returned(p) /\ Rejection(result[p]) = "OutOfBounds"
        /\ ev[p].userId = "U1"
        /\ Returned(q) /\ Rejection(result[q]) = "InvalidColor"
        /\ ev[q].userId = "U2"
        /\ rateLimits = CounterAfter("U1", rateLimitMax)

\* the notifications of invocation p
NotificationsOf(p) == {n \in published : n.by = p}

\* the transaction of invocation p has committed a Pixel with the payload
\* of notification n
CommittedPayload(p, n) ==
    \E d \in hist.placed[p] :
        d.x = n.x /\ d.y = n.y /\ d.color = n.color /\ d.userId = n.userId

\* C31: a pixel-updated notification is published only after the
\* Pixel/UserStat transaction of its placement has committed, with the x,
\* y, color and owner of the committed payload; it is published in the step
\* that ends the handling of the event, so at most once per handling; and
\* nothing is published for a rejected or failed placement.
C31_NotificationAfterCommit ==
    /\ [](\A p \in DOMAIN pc :
            /\ \A n \in NotificationsOf(p) : CommittedPayload(p, n)
            /\ Cardinality(NotificationsOf(p)) <= 1
            /\ (Returned(p) /\ result[p] # "Pixel placed") => NotificationsOf(p) = {}
            /\ pc[p] # "done" => NotificationsOf(p) = {})
    /\ [][\A n \in published' \ published :
            /\ pc[n.by] = "publish" /\ pc'[n.by] = "done"
            /\ published' = published \cup {n}]_vars

\* one placement was published after its commit, another failed in its
\* transaction and a third was rejected by the rate limiter or the
\* validation: one notification exists
C31_OnePublishedOneFailed ==
    \E p, q \in DOMAIN pc :
        /\ Returned(p) /\ result[p] = "Pixel placed" /\ NotificationsOf(p) # {}
        /\ Returned(q) /\ result[q] = "Failed to place pixel"
        /\ Cardinality(published) = 1

\* the Pixel/UserStat transaction of invocation p commits in this step
CommitsPixel(p) == pc[p] = "up_commit" /\ pc'[p] = "publish"

\* C32: no Pixel record is committed while the session is not Active: in
\* every step in which the Pixel/UserStat transaction of a placement
\* commits, the current Session record exists and its state is Active,
\* whatever pause, end and start handlers run beside the placement.
C32_CommitOnlyWhileActive ==
    [][\A p \in DOMAIN pc :
         CommitsPixel(p) =>
            /\ "current" \in DOMAIN session
            /\ StateOf(session) = "active"]_vars

(***************************************************************************)
(* SpecShrink: an active session of 50 x 50 with one pixel at (20, 20);    *)
(* start commands with the same and with smaller dimensions, end and reset *)
(* commands, and one placement inside or outside of the smaller canvas.    *)
(***************************************************************************)
ShrinkSessionProcs == {1, 2}
ShrinkPlaceProcs == {1}

InitShrink ==
    /\ now = 1
    /\ faultBudget = 0
    /\ session = ActiveSession(50, 50, 0)
    /\ archives = Empty
    /\ pixels = OnePixel(20, 20, "U1")
    /\ users = Empty
    /\ rateLimits = Empty
    /\ published = {}
    /\ inputs = {[x |-> x, y |-> 6, color |-> Green, userId |-> "U2",
                  username |-> "u2", source |-> "web"] : x \in {5, 30}}
    /\ pc = [p \in ShrinkPlaceProcs |-> "start"]
    /\ ev = [p \in ShrinkPlaceProcs |-> NoEvent]
    /\ loc = [p \in ShrinkPlaceProcs |-> NoTx]
    /\ result = [p \in ShrinkPlaceProcs |-> ""]
    /\ hist = NoHist(ShrinkPlaceProcs)
    /\ SessionWorker(ShrinkSessionProcs,
                     {Command("start", 50, 50, TRUE), Command("start", 10, 10, TRUE),
                      Command("reset", 0, 0, TRUE), Command("end", 0, 0, TRUE)})
    /\ NoSnapshotWorker

NextShrink ==
    \/ \E p \in ShrinkPlaceProcs : HandleStart(p)
    \/ \E p \in ShrinkPlaceProcs : RLRead(p)
    \/ \E p \in ShrinkPlaceProcs : RLCommit(p)
    \/ \E p \in ShrinkPlaceProcs : UPRead(p)
    \/ \E p \in ShrinkPlaceProcs : UPCommit(p)
    \/ \E p \in ShrinkPlaceProcs : Publish(p)
    \/ \E s \in ShrinkSessionProcs : handler(s, SessionDeliveries)
    \/ \E s \in ShrinkSessionProcs : startSession(s)
    \/ \E s \in ShrinkSessionProcs : resetCanvasGet(s)
    \/ \E s \in ShrinkSessionProcs : resetCanvasCommit(s)
    \/ \E s \in ShrinkSessionProcs : resetCanvasUpdate(s)
    \/ \E s \in ShrinkSessionProcs : endSessionGet(s)
    \/ \E s \in ShrinkSessionProcs : endSessionArchive(s)
    \/ \E s \in ShrinkSessionProcs : endSessionDelete(s)

SpecShrink == InitShrink /\ [][NextShrink]_vars

\* C33: whenever a current Session with a width and a height exists, every
\* Pixel record of the store lies on its canvas: 0 <= x < width and
\* 0 <= y < height, after any sequence of start (possibly with smaller
\* dimensions than the session before), placements, end and reset.
C33_PixelsInsideCanvas ==
    ( /\ "current" \in DOMAIN session
      /\ toInt(session["current"], "canvasWidth") > 0
      /\ toInt(session["current"], "canvasHeight") > 0 )
    => \A k \in DOMAIN pixels :
          /\ 0 <= pixels[k].x /\ pixels[k].x < session["current"].canvasWidth
          /\ 0 <= pixels[k].y /\ pixels[k].y < session["current"].canvasHeight

\* C34: when the reset of invocation s completes and writes resetAt and
\* pixelsCleared, the pixel store is empty and pixelsCleared counts the
\* Pixel records this reset deleted (with no other reset beside it, each of
\* its batches deleted documents that existed, at least the p0 of its
\* start), also when placements commit during its batch-delete loop.
C34_ResetLeavesStoreEmpty ==
    [][\A s \in DOMAIN spc :
         (Steps(s, "reset_update") /\ spc'[s] = "acked") =>
            /\ pixels' = Empty
            /\ session'["current"].pixelsCleared = sloc[s].deletedCount
            /\ ~shist[s].overlap => sloc[s].deletedCount >= shist[s].p0]_vars

\* the transaction of checkRateLimit commits a write for invocation p in
\* this step and checkRateLimit returns allowed
ConsumeCommits(p) ==
    /\ pc[p] = "rl_commit"
    /\ pc'[p] = "up_read"
    /\ ~loc'[p].failOpen

\* C35: the stored count of every rate counter is between 1 and 20, and
\* the count an allowed checkRateLimit returns is the stored count right
\* after its transaction commits: 1 when it set the counter, the count
\* before plus 1 when it incremented it, under every interleaving of the
\* placements of one user.
C35_CountInRangeAndReturned ==
    /\ [](\A id \in DOMAIN rateLimits :
            rateLimits[id].count >= 1 /\ rateLimits[id].count <= rateLimitMax)
    /\ [][\A p \in DOMAIN pc :
            ConsumeCommits(p) =>
               LET id == rateLimitId(ev[p].userId, loc[p].t0)
               IN  /\ id \in DOMAIN rateLimits'
                   /\ loc'[p].count = rateLimits'[id].count
                   /\ loc[p].write = "set" => loc'[p].count = 1
                   /\ loc[p].write = "update" =>
                         /\ id \in DOMAIN rateLimits
                         /\ loc'[p].count = rateLimits[id].count + 1
                   /\ loc[p].write \in {"set", "update"}]_vars

\* a counter at 18 took two placements of the user, the second of which
\* got the count 20, and the third placement was denied
C35_TwentiethAllowed ==
    \E p, q \in DOMAIN pc :
        /\ Allowed(p) /\ ~loc[p].failOpen /\ loc[p].count = rateLimitMax
        /\ Denied(q)
        /\ rateLimits[rateLimitId("U1", 0)].count = rateLimitMax
        /\ hist.base = 18

(***************************************************************************)
(* SpecRateFault: placements of one user inside one window, on a counter   *)
(* that earlier placements have brought to c0, with a store whose reads    *)
(* and commits may fail.                                                   *)
(***************************************************************************)
RateFaultProcs == {1, 2}
RateFaultCounts == {0, 1, 5, 20}

InitRateFault ==
    /\ now = 0
    /\ faultBudget = MaxFaults
    /\ session = ActiveSession(DefaultSessionSize, DefaultSessionSize, 0)
    /\ archives = Empty
    /\ pixels = Empty
    /\ users = Empty
    /\ published = {}
    /\ inputs = {[x |-> 5, y |-> 5, color |-> Red, userId |-> "U1",
                  username |-> "u1", source |-> "web"]}
    /\ \E c0 \in RateFaultCounts :
          /\ rateLimits = CounterAfter("U1", c0)
          /\ hist = [NoHist(RateFaultProcs) EXCEPT !.base = c0]
    /\ pc = [p \in RateFaultProcs |-> "start"]
    /\ ev = [p \in RateFaultProcs |-> NoEvent]
    /\ loc = [p \in RateFaultProcs |-> NoTx]
    /\ result = [p \in RateFaultProcs |-> ""]
    /\ NoSessionWorker
    /\ NoSnapshotWorker

NextRateFault ==
    \/ \E p \in RateFaultProcs : HandleStart(p)
    \/ \E p \in RateFaultProcs : RLRead(p)
    \/ \E p \in RateFaultProcs : RLCommit(p)
    \/ \E p \in RateFaultProcs : UPRead(p)
    \/ \E p \in RateFaultProcs : UPCommit(p)
    \/ \E p \in RateFaultProcs : Publish(p)

SpecRateFault == InitRateFault /\ [][NextRateFault]_vars

\* C36: within one window the stored count of a rate counter never
\* decreases and an existing counter is never set again with count = 1,
\* whatever the read of the counter inside the transaction returns, an
\* error other than not-found included.
C36_CounterNeverReset ==
    [][\A id \in DOMAIN rateLimits :
         /\ id \in DOMAIN rateLimits'
         /\ rateLimits'[id].count >= rateLimits[id].count
         /\ rateLimits'[id] # rateLimits[id] =>
               rateLimits'[id].count = rateLimits[id].count + 1]_vars

(***************************************************************************)
(* Entry points of placements.  The web entry point (web-proxy placePixel, *)
(* auth-handler handlePlacePixel: the same checks and the same message)    *)
(* takes a JSON body whose fields are numbers or strings, answers 400 or   *)
(* 202 and, after 202, publishes the placement; the message has no source  *)
(* field, which the worker reads as "".  The dispatcher routes a /draw     *)
(* interaction of Discord.                                                 *)
(***************************************************************************)
\* /^#[0-9A-Fa-f]{6}$/.test(color)
webColorRegex(c) ==
    Len(c) = 7 /\ c[1] = "#" /\ \A i \in 2..Len(c) : c[i] \in HexDigits

\* web-proxy placePixel, lines 98-108: the status of the response
placePixelStatus(body) ==
    IF body.x.type # "number" \/ body.y.type # "number" \/ body.color.type # "string"
    THEN 400
    ELSE IF ~webColorRegex(body.color.str) THEN 400
    ELSE 202

\* web-proxy placePixel, lines 117-124: the message it publishes
placePixelMessage(body, user) ==
    [x |-> body.x.num, y |-> body.y.num, color |-> body.color.str,
     userId |-> user, username |-> "u", source |-> ""]

\* strings.ToUpper on one character
ToUpper(ch) ==
    CASE ch = "a" -> "A" [] ch = "b" -> "B" [] ch = "c" -> "C"
      [] ch = "d" -> "D" [] ch = "e" -> "E" [] ch = "f" -> "F"
      [] ch = "g" -> "G" [] OTHER -> ch

\* routeDrawCommand, lines 226-227: TrimPrefix(color, "#"), then ToUpper
routeDrawColor(c) ==
    LET t == IF Len(c) > 0 /\ c[1] = "#" THEN Tail(c) ELSE c
    IN  [i \in 1..Len(t) |-> ToUpper(t[i])]

MaxPublished == 2
WebProcs == {1, 2}

Num(n) == [type |-> "number", num |-> n, str |-> <<>>]
Str(c) == [type |-> "string", num |-> 0, str |-> c]

\* the colors a client may send
ClientColors ==
    {<<"#", "F", "F", "0", "0", "0", "0">>, <<"#", "0", "0", "f", "f", "0", "0">>,
     Red, <<"#", "G", "G", "0", "0", "0", "0">>, <<"#", "F", "F">>}

\* the bodies of POST /api/pixels
WebBodies ==
    {[x |-> Num(x), y |-> Num(5), color |-> Str(c)] :
        x \in {5, 150}, c \in ClientColors}
    \cup {[x |-> Str(<<"5">>), y |-> Num(5), color |-> Str(Red)],
          [x |-> Num(5), y |-> Num(5), color |-> Num(0)]}

\* web-proxy placePixel, lines 96-140, for one request of user U1
placePixel ==
    /\ Cardinality(inputs) < MaxPublished
    /\ \E body \in WebBodies :
         /\ placePixelStatus(body) = 202
         /\ inputs' = inputs \cup {placePixelMessage(body, "U1")}
    /\ UNCHANGED <<now, faultBudget, storeVars, pixVars, hist, sessVars, snapVars,
                   deadLetter>>

\* routeDrawCommand, lines 216-253, for one /draw of user U2 at (6, 6)
routeDrawCommand ==
    /\ Cardinality(inputs) < MaxPublished
    /\ \E c \in ClientColors :
         inputs' = inputs \cup
            {[x |-> 6, y |-> 6, color |-> routeDrawColor(c), userId |-> "U2",
              username |-> "u", source |-> "discord"]}
    /\ UNCHANGED <<now, faultBudget, storeVars, pixVars, hist, sessVars, snapVars,
                   deadLetter>>

InitWeb ==
    /\ now = 0
    /\ faultBudget = 0
    /\ session = ActiveSession(DefaultSessionSize, DefaultSessionSize, 0)
    /\ archives = Empty
    /\ pixels = Empty
    /\ users = Empty
    /\ rateLimits = Empty
    /\ published = {}
    /\ inputs = {}
    /\ pc = [p \in WebProcs |-> "start"]
    /\ ev = [p \in WebProcs |-> NoEvent]
    /\ loc = [p \in WebProcs |-> NoTx]
    /\ result = [p \in WebProcs |-> ""]
    /\ hist = NoHist(WebProcs)
    /\ NoSessionWorker
    /\ NoSnapshotWorker

NextWeb ==
    \/ placePixel
    \/ routeDrawCommand
    \/ \E p \in WebProcs : HandleStart(p)
    \/ \E p \in WebProcs : RLRead(p)
    \/ \E p \in WebProcs : RLCommit(p)
    \/ \E p \in WebProcs : UPRead(p)
    \/ \E p \in WebProcs : UPCommit(p)
    \/ \E p \in WebProcs : Publish(p)

SpecWeb == InitWeb /\ [][NextWeb]_vars

\* C37: every placement the web entry point accepted and published passes
\* the color validation of the pixel worker, so a web placement on the
\* active session, in bounds and under the rate limit, is not rejected as
\* InvalidColor and ends with its Pixel committed.
C37_WebColorAccepted ==
    /\ \A e \in inputs : e.source = "" => hexColorRegex(e.color)
    /\ \A p \in DOMAIN pc :
         (Returned(p) /\ ev[p].source = "web" /\ ev[p].x < DefaultSessionSize) =>
            /\ Rejection(result[p]) # "InvalidColor"
            /\ result[p] = "Pixel placed"
            /\ pixelID(ev[p].x, ev[p].y) \in DOMAIN pixels

\* the fields that identify a session
SessionIdentity(d) ==
    [f \in {"startedAt", "canvasWidth", "canvasHeight", "createdBy"} \cap DOMAIN d
        |-> d[f]]

\* C38: end deletes only the Session record it archived: whenever an end
\* deletes the current record, the record it read and archived has the
\* startedAt, the dimensions and the creator of the record it deletes, so
\* that a session created by a concurrent start is never deleted without
\* an archive of it.
C38_EndDeletesWhatItArchived ==
    [][\A s \in DOMAIN spc :
         ( /\ Steps(s, "end_delete")
           /\ "current" \in DOMAIN session
           /\ "current" \notin DOMAIN session' ) =>
            /\ SessionIdentity(sloc[s].data) = SessionIdentity(session["current"])
            /\ \E a \in DOMAIN archives :
                  SessionIdentity(archives[a]) = SessionIdentity(session["current"])]_vars

\* the same command was handled twice in succession, by s and then by q:
\* both invocations returned success and q began after s had returned
HandledTwice(s, q) ==
    /\ s # q
    /\ spc[s] = "acked" /\ spc[q] = "acked"
    /\ sev[s] = sev[q]
    /\ ~shist[s].overlap /\ ~shist[q].overlap

\* C39: session commands are idempotent under duplicate delivery: after the
\* same pause, resume or reset was handled twice in succession the current
\* Session record is, timestamps aside, the one after it was handled once;
\* after a duplicated reset pixelsCleared is still the number of pixels the
\* reset removed, the p0 documents that were in the store before it.
C39_DuplicateCommandIdempotent ==
    \A s, q \in DOMAIN spc :
        (HandledTwice(s, q) /\ shist[s].p0 >= shist[q].p0) =>
            /\ sev[s].action = "pause" => session["current"].status = "paused"
            /\ sev[s].action = "resume" => session["current"].status = "active"
            /\ sev[s].action = "reset" =>
                  /\ session["current"].status = "active"
                  /\ pixels = Empty
                  /\ session["current"].pixelsCleared = shist[s].p0

(***************************************************************************)
(* SpecTerminate: one snapshot run on a machine of one CPU, whose pool has *)
(* 4 slots, over a store with pixels in no tile, in 2 tiles or in 5 tiles  *)
(* of the 5000 x 5000 canvas, with a store in which no upload, or any      *)
(* number of the uploads, may fail.  The goroutines of the jobs and the    *)
(* handler are scheduled fairly: a step that stays possible is taken.      *)
(***************************************************************************)
TerminateCells ==
    {{}, {<<3, 3>>, <<3000, 3000>>},
     {<<3, 3>>, <<2048, 5>>, <<5, 2048>>, <<3000, 3000>>, <<4999, 4999>>}}

InitTerminate ==
    /\ now = 1
    /\ \E cells \in TerminateCells :
          /\ pixels = [c \in cells |->
                          [x |-> c[1], y |-> c[2], color |-> Red, userId |-> "U1",
                           username |-> "u1", source |-> "web", updatedAt |-> 0]]
          /\ faultBudget \in {0, Cardinality(cells) + 2}
    /\ session = ActiveSession(BigCanvas, BigCanvas, 0)
    /\ archives = Empty
    /\ users = Empty
    /\ rateLimits = Empty
    /\ published = {}
    /\ inputs = {}
    /\ pc = Empty /\ ev = Empty /\ loc = Empty /\ result = Empty
    /\ hist = NoHist({})
    /\ NoSessionWorker
    /\ snap = [NoSnap EXCEPT !.req = [channelId |-> "C1", token |-> TRUE]]
    /\ tiles = Empty
    /\ bucket = Empty
    /\ deadLetter = {}

NextTerminate ==
    \/ SnapshotStart
    \/ SnapshotGetPixels({1})
    \/ \E k \in DOMAIN tiles : TileAcquire(k)
    \/ \E k \in DOMAIN tiles : TileFinish(k)
    \/ ThumbAcquire
    \/ ThumbFinish
    \/ SnapshotManifest

SpecTerminate == InitTerminate /\ [][NextTerminate]_vars /\ WF_vars(NextTerminate)

\* C40: a snapshot run always terminates: once the jobs are started, for 0,
\* 2 or 5 non-empty tiles on a pool of 4 slots and every outcome of the
\* uploads, every tile job and the thumbnail job finishes and has released
\* its slot, the wait for them returns and the handler goes through the
\* manifest step and returns; a run that is not over can always take a step.
C40_SnapshotTerminates ==
    /\ (snap.pc = "wait") ~>
          ( /\ snap.pc = "returned"
            /\ JobsFinished
            /\ RunningJobs = 0
            /\ snap.manifest # Empty )
    /\ [](snap.pc # "returned" => ENABLED NextTerminate)

\* the run over 5 tiles on the pool of 4 slots has returned after two of
\* its uploads failed
C40_FiveTilesReturned ==
    /\ snap.pc = "returned"
    /\ Cardinality(DOMAIN tiles) = 5
    /\ snap.maxWorkers = 4
    /\ JobsFinished
    /\ snap.failed = 2
    /\ snap.manifest # Empty
====
